---- MODULE Spec2Model ----
(***************************************************************************)
(* Model of samsung-docs-mcp: the page registry (db.json), the content     *)
(* store (pages/*.md), the in-memory search index, the populate pipeline   *)
(* and the tool handlers that share them inside one process.               *)
(*                                                                         *)
(* One action is one continuation of the event loop: the code that runs    *)
(* between the completion of one I/O await (network fetch, file read,      *)
(* file write, file delete) and the next one.  A continuation that only    *)
(* touches the locals of its own handler is folded into the next step of   *)
(* that handler that reads or writes shared state: the awaits of           *)
(* ensureCacheDir, the discovery loop of populate (folded into the step    *)
(* where readDb resolves) and the resolution of fetchPage (folded into     *)
(* the step where the page file has been written).                         *)
(***************************************************************************)
EXTENDS Integers, Sequences, FiniteSets, TLC

\* ---------------------------------------------------------------- bounds
NumKeys == 3
NumEntryPoints == 2
MaxTime == 2
MaxConcurrency == 2
MaxTTL == 1
NumRuns == 2
MaxOps == 2
MaxRuns == 3
MaxSeqOps == 3
MaxEntries == 4
MaxStr == 3
MaxLimit == 2
MaxPatterns == 2
MaxVer == 3
MaxClauses == 2
MaxPath == 2

\* ------------------------------------------------------ program constants
DefaultConcurrency == 5
\* WEEK_MS, in units of the model clock (one tick of the clock is a week)
WEEK_MS == 1
ResolverMax == 3
ProgressEvery == 10
Absent == 0

Pages == 1..NumKeys
Files == 1..NumKeys
EntryPoints == 1..NumEntryPoints
Runs == 1..NumRuns

Min(a, b) == IF a < b THEN a ELSE b

\* A url is a path of the site, or the same path behind the site's origin.
PathOf(k) == [abs |-> FALSE, page |-> k]
FullUrlOf(k) == [abs |-> TRUE, page |-> k]
Urls == [abs : BOOLEAN, page : Pages]

\* The cache file of a url: origin and extension are dropped.
urlToPath(u) == u.page

\* Titles: <<page, e>> is the text of the navigation link to the page in the
\* sidebar of entry point e; <<page, 0>> is the <title> of the page itself.
LinkTitle(k, e) == <<k, e>>
PageTitle(k) == <<k, 0>>

\* ------------------------------------------------------- the remote site
Listed(e, k) == (k % NumEntryPoints = e % NumEntryPoints) \/ k = NumKeys

RECURSIVE LinksFrom(_, _)
LinksFrom(e, k) ==
  IF k > NumKeys THEN <<>>
  ELSE (IF Listed(e, k) THEN <<[href |-> PathOf(k), title |-> LinkTitle(k, e)]>> ELSE <<>>)
       \o LinksFrom(e, k + 1)

discoverLinks(e) == LinksFrom(e, 1)

\* fetchPage(url) on success: { title, url: fullUrl, markdown }; rev is the
\* revision of the page text that the site serves (it revises every page
\* once per unit of the clock)
fetchPage(u, rev) == [title |-> PageTitle(u.page), url |-> FullUrlOf(u.page), rev |-> rev]

\* `# ${page.title}\n\nSource: ${page.url}\n\n${page.markdown}`
Content(page) == [title |-> page.title, src |-> page.url, rev |-> page.rev]
NoDoc == [title |-> <<0, 0>>, src |-> [abs |-> FALSE, page |-> 0], rev |-> 0]

\* --------------------------------------------------------------- registry
EmptyDb == [populatedAt |-> Absent, pages |-> <<>>]
NoDbFile == [exists |-> FALSE, torn |-> FALSE, db |-> EmptyDb]

\* db.json opened for writing by Bun.write, its bytes not yet written
Truncated == [exists |-> TRUE, torn |-> TRUE, db |-> EmptyDb]

Find(pages, h) ==
  LET S == {n \in 1..Len(pages) : pages[n].href = h}
  IN  IF S = {} THEN 0 ELSE CHOOSE n \in S : TRUE

HasKey(pages, h) == Find(pages, h) # 0

EntryOf(pages, h) == pages[Find(pages, h)]

\* variant: the entry is assigned without the test for an existing one
registerAlways(pages, link) ==
  IF HasKey(pages, link.href)
  THEN [pages EXCEPT ![Find(pages, link.href)] =
          [href |-> link.href, title |-> link.title, fetchedAt |-> Absent]]
  ELSE Append(pages, [href |-> link.href, title |-> link.title, fetchedAt |-> Absent])

\* if (!db.pages[href]) db.pages[href] = { title, fetchedAt: null }
registerIfAbsent(pages, link) ==
  IF HasKey(pages, link.href) THEN pages
  ELSE Append(pages, [href |-> link.href, title |-> link.title, fetchedAt |-> Absent])

RECURSIVE registerAll(_, _)
registerAll(pages, links) ==
  IF links = <<>> THEN pages
  ELSE registerAll(registerIfAbsent(pages, Head(links)), Tail(links))

\* variant: an entry already in the registry is left as it is
markFetchedNew(pages, h, title, t) ==
  IF HasKey(pages, h) THEN pages
  ELSE Append(pages, [href |-> h, title |-> title, fetchedAt |-> t])

\* db.pages[href] = { title, fetchedAt: Date.now() }
markFetched(pages, h, title, t) ==
  IF HasKey(pages, h)
  THEN [pages EXCEPT ![Find(pages, h)] = [href |-> h, title |-> title, fetchedAt |-> t]]
  ELSE Append(pages, [href |-> h, title |-> title, fetchedAt |-> t])

\* file.json() raises on a file that does not hold a complete document
readDbThrows(file) == file.exists /\ file.torn

readDb(file) == IF file.exists THEN file.db ELSE EmptyDb

\* the file once Bun.write(DB_PATH, JSON.stringify(db)) has resolved
writeDb(file, db) == [exists |-> TRUE, torn |-> FALSE, db |-> db]

\* ---------------------------------------------------------- search index
NoIndex == [built |-> FALSE, docs |-> [f \in Files |-> NoDoc]]
createIndex == [built |-> TRUE, docs |-> [f \in Files |-> NoDoc]]

\* MiniSearch raises on discard of an unknown id and on add of a known id.
addToSearchIndexThrows(idx, ids, f) ==
  /\ idx.built
  /\ \/ f \in ids /\ idx.docs[f] = NoDoc
     \/ f \notin ids /\ idx.docs[f] # NoDoc

\* variant: add without the discard of the entry already indexed
addToSearchIndexKeep(idx, f, content) ==
  IF idx.built /\ idx.docs[f] = NoDoc THEN [idx EXCEPT !.docs[f] = content] ELSE idx

\* variant: writeCache without the index update
addToSearchIndexSkip(idx, f, content) == idx

addToSearchIndex(idx, f, content) ==
  IF idx.built THEN [idx EXCEPT !.docs[f] = content] ELSE idx

addToIndexedIds(idx, ids, f) == IF idx.built THEN ids \cup {f} ELSE ids

\* --------------------------------------------------------------- populate
Entries(sec) == IF sec = 0 THEN [n \in 1..NumEntryPoints |-> n] ELSE <<sec>>

RECURSIVE DedupeFrom(_, _)
DedupeFrom(links, seen) ==
  IF links = <<>> THEN <<>>
  ELSE IF Head(links).href \in seen THEN DedupeFrom(Tail(links), seen)
  ELSE <<Head(links)>> \o DedupeFrom(Tail(links), seen \cup {Head(links).href})

\* variant: the filter on `seen` is left out
DedupeNone(links) == links

Dedupe(links) == DedupeFrom(links, {})

IdleRun ==
  [pc |-> "idle", now |-> 0, conc |-> 0, ttl |-> 0, sec |-> 0,
   links |-> <<>>, db |-> EmptyDb, was |-> <<>>, st |-> <<>>,
   fetched |-> 0, skipped |-> 0, errors |-> 0, i |-> 0, nw |-> 0, found |-> {},
   progress |-> {}]

Settled == {"skip", "ok", "err"}
InFlight == {"fetching"}

\* populate(opts): the synchronous prefix up to the first discoverLinks await
BeginRun(conc, sec, ttl, t) ==
  [IdleRun EXCEPT !.pc = "discover", !.now = t, !.conc = conc, !.sec = sec, !.ttl = ttl]

\* variant: the first entry point that fails ends the discovery loop
RECURSIVE DiscoveredAbort(_, _)
DiscoveredAbort(entries, oks) ==
  IF entries = <<>> \/ Head(entries) \notin oks THEN <<>>
  ELSE discoverLinks(Head(entries)) \o DiscoveredAbort(Tail(entries), oks)

\* the discovery loop: the links of the entry points in oks, in entry order;
\* an entry point outside oks failed and is only logged
RECURSIVE Discovered(_, _)
Discovered(entries, oks) ==
  IF entries = <<>> THEN <<>>
  ELSE (IF Head(entries) \in oks THEN discoverLinks(Head(entries)) ELSE <<>>)
       \o Discovered(Tail(entries), oks)

\* found: the entry points logged as `[discover] ${name}: ${links.length} pages`
AfterDiscover(rr, oks) ==
  [rr EXCEPT !.links = Dedupe(Discovered(Entries(rr.sec), oks)),
             !.found = {e \in oks : \E n \in 1..Len(Entries(rr.sec)) : Entries(rr.sec)[n] = e}]

\* variant: the age test includes the boundary (now - fetchedAt <= ttlMs)
IsFreshInclusive(entry, now, ttl) == entry.fetchedAt # Absent /\ now - entry.fetchedAt <= ttl

\* entry?.fetchedAt && now - entry.fetchedAt < ttlMs
IsFresh(entry, now, ttl) == entry.fetchedAt # Absent /\ now - entry.fetchedAt < ttl

\* variant: the slice has no upper end (allLinks.slice(i))
BatchIdxRest(rr) == {j \in 1..Len(rr.links) : rr.i < j}

\* allLinks.slice(i, i + concurrency), as positions in allLinks
BatchIdx(rr) == {j \in 1..Len(rr.links) : rr.i < j /\ j <= rr.i + rr.conc}

\* variant: Promise.race, resolved as soon as one member has settled
AnySettled(rr) == \E j \in BatchIdx(rr) : rr.st[j] \in Settled

\* Promise.all over the batch: resolved when every member has settled
AllSettled(rr) == \A j \in BatchIdx(rr) : rr.st[j] \in Settled

\* variant: a fresh link returns without skipped++
StartItemUncounted(rr, j) ==
  IF IsFresh(EntryOf(rr.db.pages, rr.links[j].href), rr.now, rr.ttl)
  THEN [rr EXCEPT !.st[j] = "skip"]
  ELSE [rr EXCEPT !.st[j] = "fetching"]

\* fetchAndCache(link) up to its first await
StartItem(rr, j) ==
  IF IsFresh(EntryOf(rr.db.pages, rr.links[j].href), rr.now, rr.ttl)
  THEN [rr EXCEPT !.skipped = @ + 1, !.st[j] = "skip"]
  ELSE [rr EXCEPT !.st[j] = "fetching"]

RECURSIVE StartItems(_, _)
StartItems(rr, todo) ==
  IF todo = {} THEN rr
  ELSE LET j == CHOOSE x \in todo : \A y \in todo : x <= y
       IN  StartItems(StartItem(rr, j), todo \ {j})

\* the await on Promise.all, followed by the call of writeDb
BatchJoin(rr) == IF AllSettled(rr) THEN [rr EXCEPT !.pc = "persist"] ELSE [rr EXCEPT !.pc = "batch"]

\* the head of the batch loop; past the last batch: db.populatedAt = Date.now()
EnterLoop(rr, t) ==
  IF rr.i < Len(rr.links)
  THEN BatchJoin(StartItems(rr, BatchIdx(rr)))
  ELSE [rr EXCEPT !.pc = "finalize", !.db.populatedAt = t]

\* const db = await readDb(); register every discovered link; first batch
AfterReadDb(rr, file, t) ==
  LET pages == registerAll(readDb(file).pages, rr.links)
      r1 == [rr EXCEPT !.db = [populatedAt |-> readDb(file).populatedAt, pages |-> pages],
                       !.was = [j \in 1..Len(rr.links) |-> EntryOf(pages, rr.links[j].href).fetchedAt],
                       !.st = [j \in 1..Len(rr.links) |-> "new"]]
  IN  EnterLoop(r1, t)

\* variant: no catch, the failure rejects populate
ItemFailedAbort(rr, j) == [rr EXCEPT !.errors = @ + 1, !.st[j] = "err", !.pc = "aborted"]

\* catch (e) { errors++ }
ItemFailed(rr, j) == BatchJoin([rr EXCEPT !.errors = @ + 1, !.st[j] = "err"])

\* fetchPage and writeCache resolved: db.pages[href] = { title: link.title, fetchedAt };
\* fetched++; progress: the values of `done` at which the line
\* `[fetch] ${done}/${total} (...)` has been logged
ItemWritten(rr, j, t) ==
  LET r1 == [rr EXCEPT !.db.pages = markFetched(@, rr.links[j].href, rr.links[j].title, t),
                       !.fetched = @ + 1, !.st[j] = "ok"]
      done == r1.fetched + r1.skipped + r1.errors
  IN  BatchJoin(IF done % ProgressEvery = 0 \/ done = Len(rr.links)
                THEN [r1 EXCEPT !.progress = @ \cup {done}]
                ELSE r1)

\* await writeDb(db) inside the loop resolved; i += concurrency.  nw (history)
\* counts these writes, up to one more than a run over every page can make
AfterBatchWrite(rr, t) ==
  EnterLoop([rr EXCEPT !.i = @ + rr.conc, !.nw = Min(@ + 1, NumKeys + 1)], t)

\* what has been written to db.json so far (history, not program state)
NoHist == [keys |-> {}, fetched |-> {}, populated |-> FALSE, cleared |-> FALSE]

Written(h, db) ==
  [h EXCEPT !.keys = @ \cup {db.pages[n].href : n \in 1..Len(db.pages)},
            !.fetched = @ \cup {db.pages[n].href : n \in {m \in 1..Len(db.pages) :
                                                      db.pages[m].fetchedAt # Absent}},
            !.populated = @ \/ db.populatedAt # Absent]

\* ------------------------------------------------------- handler records
IdleFp == [pc |-> "idle", url |-> PathOf(1), db |-> EmptyDb]
IdleSrch == [pc |-> "idle", q |-> {}, snap |-> {}, docs |-> <<>>, db |-> EmptyDb,
             todo |-> <<>>, pos |-> 0]
\* found: the entry points reported as `${name}: ${links.length} pages found`
IdleDisc == [pc |-> "idle", sec |-> 0, ei |-> 0, db |-> EmptyDb, found |-> {}]
\* solo (history): the invocation number of a clear-cache that started with
\* no other handler in flight, else 0
IdleClr == [pc |-> "idle", snap |-> {}, seen |-> {}, count |-> 0, solo |-> 0]

\* call: one evaluation of a function of the program on its own: st is
\* "called" until the function returns its value out ("returned") or raises
\* an error ("raised")
NoCall == [fn |-> "none", in |-> <<>>, st |-> "none", out |-> FALSE]
CallOf(fn, in) == [fn |-> fn, in |-> in, st |-> "called", out |-> FALSE]

VARIABLES clock, dbFile, pagesDir, index, indexedIds, boot, run, fp, srch, disc, clr, ops, hist, call

vars == <<clock, dbFile, pagesDir, index, indexedIds, boot, run, fp, srch, disc, clr, ops, hist, call>>

tools == <<fp, srch, disc, clr>>

rest == <<boot, ops, hist>>

ActiveRuns == {r \in Runs : run[r].pc # "idle"}

\* handlers in flight
Active ==
  Cardinality(ActiveRuns)
  + (IF fp.pc = "idle" THEN 0 ELSE 1) + (IF srch.pc = "idle" THEN 0 ELSE 1)
  + (IF disc.pc = "idle" THEN 0 ELSE 1) + (IF clr.pc = "idle" THEN 0 ELSE 1)

Stored == {f \in Files : pagesDir[f] # NoDoc}

Init ==
  /\ clock = 1
  /\ dbFile = NoDbFile
  /\ pagesDir = [f \in Files |-> NoDoc]
  /\ index = NoIndex
  /\ indexedIds = {}
  /\ boot = "pending"
  /\ run = [r \in Runs |-> IdleRun]
  /\ fp = IdleFp
  /\ srch = IdleSrch
  /\ disc = IdleDisc
  /\ clr = IdleClr
  /\ ops = 0
  /\ hist = NoHist
  /\ call = NoCall

\* a new run takes the first unused run record; the model admits `budget`
\* handler invocations in all (MaxOps in the server, MaxRuns for a lone run)
Free(r) == run[r].pc = "idle" /\ \A x \in Runs : x < r => run[x].pc # "idle"

\* the process runs: it has not been ended by a rejection that nothing handles
Alive == boot # "dead"

\* (async () => { const db = await readDb(); if (!db.populatedAt) populate() })()
\* when readDb rejects nothing is started and nothing handles the rejection of
\* the async function: the runtime reports it and, unless it is configured
\* only to warn, ends the process
StartupCheck(r, budget) ==
  /\ boot = "pending"
  /\ IF readDbThrows(dbFile)
     THEN \/ /\ boot' = "done"
             /\ UNCHANGED <<clock, run, ops, index, indexedIds, tools>>
          \/ /\ boot' = "dead"
             /\ run' = [x \in Runs |-> IdleRun]
             /\ fp' = IdleFp /\ srch' = IdleSrch /\ disc' = IdleDisc /\ clr' = IdleClr
             /\ index' = NoIndex
             /\ indexedIds' = {}
             /\ UNCHANGED <<clock, ops>>
     ELSE /\ boot' = "done"
          /\ IF readDb(dbFile).populatedAt = Absent
             THEN /\ Free(r)
                  /\ ops < budget
                  /\ \E t \in {clock} :
                       /\ clock' = t
                       /\ run' = [run EXCEPT ![r] = BeginRun(DefaultConcurrency, 0, WEEK_MS, t)]
                       /\ ops' = ops + 1
             ELSE UNCHANGED <<clock, run, ops>>
          /\ UNCHANGED <<index, indexedIds, tools>>
  /\ UNCHANGED <<dbFile, pagesDir, hist>>
  /\ UNCHANGED call

\* setInterval(() => populate(), WEEK_MS)
TimerFire(r, budget) ==
  /\ Alive
  /\ Free(r)
  /\ ops < budget
  /\ \E t \in {clock} :
       /\ clock' = t
       /\ run' = [run EXCEPT ![r] = BeginRun(DefaultConcurrency, 0, WEEK_MS, t)]
  /\ UNCHANGED <<dbFile, pagesDir, index, indexedIds, boot, tools>>
  /\ ops' = ops + 1
  /\ UNCHANGED hist
  /\ UNCHANGED call

\* discover tool, fetchAll = true: populate({ concurrency, section, log })
DiscoverFetchAll(r, budget) ==
  /\ Alive
  /\ Free(r)
  /\ ops < budget
  /\ \E conc \in 1..MaxConcurrency, sec \in {0} \cup EntryPoints, t \in {clock} :
       /\ clock' = t
       /\ run' = [run EXCEPT ![r] = BeginRun(conc, sec, WEEK_MS, t)]
  /\ UNCHANGED <<dbFile, pagesDir, index, indexedIds, boot, tools>>
  /\ ops' = ops + 1
  /\ UNCHANGED hist
  /\ UNCHANGED call

\* populate(opts) called with an explicit ttlMs
PopulateCall(r, budget) ==
  /\ Free(r)
  /\ ops < budget
  /\ \E conc \in 1..MaxConcurrency, ttl \in 0..MaxTTL, t \in {clock} :
       /\ clock' = t
       /\ run' = [run EXCEPT ![r] = BeginRun(conc, 0, ttl, t)]
  /\ UNCHANGED <<dbFile, pagesDir, index, indexedIds, boot, tools>>
  /\ ops' = ops + 1
  /\ UNCHANGED hist
  /\ UNCHANGED call

\* Discover, then await readDb() resolves: Register, Select, first batch;
\* when readDb rejects, populate rejects
Register(r) ==
  /\ run[r].pc = "discover"
  /\ IF readDbThrows(dbFile)
     THEN /\ run' = [run EXCEPT ![r] = IdleRun]
          /\ UNCHANGED clock
     ELSE \E oks \in SUBSET EntryPoints, t \in {clock} :
            /\ run' = [run EXCEPT ![r] = AfterReadDb(AfterDiscover(run[r], oks), dbFile, t)]
            /\ clock' = IF run'[r].pc = "finalize" THEN t ELSE clock
  /\ UNCHANGED <<dbFile, pagesDir, index, indexedIds, rest, tools>>
  /\ UNCHANGED call

\* await fetchPage(link.href) rejects
FetchFail(r) ==
  /\ \E j \in 1..Len(run[r].st) :
       /\ run[r].st[j] = "fetching"
       /\ run' = [run EXCEPT ![r] = ItemFailed(run[r], j)]
  /\ UNCHANGED <<clock, dbFile, pagesDir, index, indexedIds, rest, tools>>
  /\ UNCHANGED call

\* fetchPage resolved and writeCache wrote the page file: addToSearchIndex,
\* then the entry is marked fetched
WriteDone(r) ==
  /\ \E j \in 1..Len(run[r].st) :
       LET h == run[r].links[j].href
           f == urlToPath(h)
       IN  /\ run[r].st[j] = "fetching"
           /\ pagesDir' = [pagesDir EXCEPT ![f] = Content(fetchPage(h, clock))]
           /\ IF addToSearchIndexThrows(index, indexedIds, f)
              THEN /\ run' = [run EXCEPT ![r] = ItemFailed(run[r], j)]
                   /\ UNCHANGED <<clock, index, indexedIds>>
              ELSE /\ index' = addToSearchIndex(index, f, Content(fetchPage(h, clock)))
                   /\ indexedIds' = addToIndexedIds(index, indexedIds, f)
                   /\ \E t \in {clock} :
                        /\ clock' = t
                        /\ run' = [run EXCEPT ![r] = ItemWritten(run[r], j, t)]
  /\ UNCHANGED <<dbFile, rest, tools>>
  /\ UNCHANGED call

\* await writeDb(db) after a batch resolves; next batch, or populatedAt is set
BatchWrite(r) ==
  /\ run[r].pc = "persist"
  /\ dbFile' = writeDb(dbFile, run[r].db)
  /\ \E t \in {clock} :
       /\ run' = [run EXCEPT ![r] = AfterBatchWrite(run[r], t)]
       /\ clock' = IF run'[r].pc = "finalize" THEN t ELSE clock
  /\ UNCHANGED <<pagesDir, index, indexedIds, boot, ops, tools>>
  /\ hist' = Written(hist, run[r].db)
  /\ UNCHANGED call

\* the last await writeDb(db) resolves; the summary line is logged
Finalize(r) ==
  /\ run[r].pc = "finalize"
  /\ dbFile' = writeDb(dbFile, run[r].db)
  /\ run' = [run EXCEPT ![r] = IdleRun]
  /\ UNCHANGED <<clock, pagesDir, index, indexedIds, boot, ops, tools>>
  /\ hist' = Written(hist, run[r].db)
  /\ UNCHANGED call

\* a writeDb is in progress: called, not yet resolved
DbWriting ==
  \/ \E r \in Runs : run[r].pc \in {"persist", "finalize"}
  \/ fp.pc = "writeDb" \/ srch.pc = "rwriteDb" \/ disc.pc = "writeDb"

\* Bun.write opens db.json and empties it before it writes the new bytes
DbTruncate ==
  /\ DbWriting
  /\ dbFile # Truncated
  /\ dbFile' = Truncated
  /\ UNCHANGED <<clock, pagesDir, index, indexedIds, rest, run, tools>>
  /\ UNCHANGED call

\* One unit of the clock is WEEK_MS, far longer than any handler runs: the
\* clock moves on between handlers, and Date.now() reads it.
Tick ==
  /\ Active = 0
  /\ clock < MaxTime
  /\ clock' = clock + 1
  /\ UNCHANGED <<dbFile, pagesDir, index, indexedIds, rest, run, tools>>
  /\ UNCHANGED call

\* the process is killed and started again: memory is lost, the files stay
Crash ==
  /\ Active > 0
  /\ run' = [r \in Runs |-> IdleRun]
  /\ fp' = IdleFp /\ srch' = IdleSrch /\ disc' = IdleDisc /\ clr' = IdleClr
  /\ index' = NoIndex
  /\ indexedIds' = {}
  /\ boot' = "pending"
  /\ UNCHANGED <<clock, dbFile, pagesDir, ops, hist>>
  /\ UNCHANGED call

\* ------------------------------------------------------------- fetch-page
\* fetch-page tool: readCached(url); a miss starts fetchPage(url)
FpCall(budget) ==
  /\ Alive
  /\ fp.pc = "idle"
  /\ ops < budget
  /\ \E u \in Urls :
       IF pagesDir[urlToPath(u)] # NoDoc
       THEN UNCHANGED fp
       ELSE fp' = [IdleFp EXCEPT !.pc = "fetch", !.url = u]
  /\ UNCHANGED <<clock, dbFile, pagesDir, index, indexedIds, boot, run, srch, disc, clr>>
  /\ ops' = ops + 1
  /\ UNCHANGED hist
  /\ UNCHANGED call

FpFetchFail ==
  /\ fp.pc = "fetch"
  /\ fp' = IdleFp
  /\ UNCHANGED <<clock, dbFile, pagesDir, index, indexedIds, rest, run, srch, disc, clr>>
  /\ UNCHANGED call

\* fetchPage resolved, await writeCache(url, content); then readDb() is called
FpWrite ==
  LET f == urlToPath(fp.url)
  IN  /\ fp.pc = "fetch"
      /\ pagesDir' = [pagesDir EXCEPT ![f] = Content(fetchPage(fp.url, clock))]
      /\ IF addToSearchIndexThrows(index, indexedIds, f)
         THEN /\ fp' = IdleFp
              /\ UNCHANGED <<index, indexedIds>>
         ELSE /\ index' = addToSearchIndex(index, f, Content(fetchPage(fp.url, clock)))
              /\ indexedIds' = addToIndexedIds(index, indexedIds, f)
              /\ fp' = [fp EXCEPT !.pc = "readDb"]
      /\ UNCHANGED <<clock, dbFile, rest, run, srch, disc, clr>>
  /\ UNCHANGED call

\* const db = await readDb(); db.pages[url] = { title: page.title, fetchedAt: Date.now() }
FpReadDb ==
  /\ fp.pc = "readDb"
  /\ IF readDbThrows(dbFile)
     THEN fp' = IdleFp /\ UNCHANGED clock
     ELSE \E t \in {clock} :
            /\ clock' = t
            /\ fp' = [fp EXCEPT !.pc = "writeDb",
                                !.db = [readDb(dbFile) EXCEPT
                                          !.pages = markFetched(@, fp.url, fetchPage(fp.url, clock).title, t)]]
  /\ UNCHANGED <<dbFile, pagesDir, index, indexedIds, rest, run, srch, disc, clr>>
  /\ UNCHANGED call

FpWriteDb ==
  /\ fp.pc = "writeDb"
  /\ dbFile' = writeDb(dbFile, fp.db)
  /\ fp' = IdleFp
  /\ UNCHANGED <<clock, pagesDir, index, indexedIds, boot, ops, run, srch, disc, clr>>
  /\ hist' = Written(hist, fp.db)
  /\ UNCHANGED call

\* ---------------------------------------------- search and the resolver
\* a query is a set of terms; a term is the topic of one page
Queries == {{1}, Pages}

Hit(q, title) == title[1] \in q

\* index.search(query): the ids of the matching documents
LocalResults(idx, q) == {f \in Files : idx.docs[f] # NoDoc /\ Hit(q, idx.docs[f].title)}

\* variant: the documents read by the scan are not added
addAllNone(idx, docs) == idx

\* index.addAll(docs): adds in order, raises at the first id already present
RECURSIVE addAll(_, _)
addAll(idx, docs) ==
  IF docs = <<>> \/ idx.docs[Head(docs).id] # NoDoc THEN idx
  ELSE addAll([idx EXCEPT !.docs[Head(docs).id] = Head(docs).body], Tail(docs))

addAllThrows(idx, docs) ==
  \/ ~idx.built
  \/ \E n \in 1..Len(docs) : idx.docs[docs[n].id] # NoDoc
  \/ \E m, n \in 1..Len(docs) : m # n /\ docs[m].id = docs[n].id

\* the fallback after zero local results: the await on readDb()
ToFallback(ss) == [ss EXCEPT !.pc = "fallback", !.snap = {}, !.docs = <<>>]

\* search tool: search(query, maxResults, files)
SearchCall(budget) ==
  /\ Alive
  /\ srch.pc = "idle"
  /\ ops < budget
  /\ \E q \in Queries :
       IF ~index.built
       THEN /\ index' = createIndex
            /\ indexedIds' = {}
            /\ srch' = [IdleSrch EXCEPT !.pc = "scan", !.q = q, !.snap = Stored]
       ELSE /\ IF LocalResults(index, q) # {}
               THEN UNCHANGED srch
               ELSE srch' = ToFallback([IdleSrch EXCEPT !.q = q])
            /\ UNCHANGED <<index, indexedIds>>
  /\ UNCHANGED <<clock, dbFile, pagesDir, boot, run, fp, disc, clr>>
  /\ ops' = ops + 1
  /\ UNCHANGED hist
  /\ UNCHANGED call

\* buildSearchIndex: the scan yields one file, its text is read
ScanFile ==
  /\ srch.pc = "scan"
  /\ \E f \in Stored \ {srch.docs[n].id : n \in 1..Len(srch.docs)} :
       /\ srch' = [srch EXCEPT !.docs = Append(@, [id |-> f, body |-> pagesDir[f]])]
       /\ indexedIds' = indexedIds \cup {f}
  /\ UNCHANGED <<clock, dbFile, pagesDir, index, rest, run, fp, disc, clr>>
  /\ UNCHANGED call

\* the scan is exhausted: index.addAll(docs), then index.search(query)
ScanEnd ==
  /\ srch.pc = "scan"
  /\ (srch.snap \cap Stored) \subseteq {srch.docs[n].id : n \in 1..Len(srch.docs)}
  /\ IF addAllThrows(index, srch.docs)
     THEN /\ index' = (IF index.built THEN addAll(index, srch.docs) ELSE index)
          /\ srch' = ToFallback(srch)
     ELSE /\ index' = addAll(index, srch.docs)
          /\ srch' = IF LocalResults(index', srch.q) # {} THEN IdleSrch ELSE ToFallback(srch)
  /\ UNCHANGED <<clock, dbFile, pagesDir, indexedIds, rest, run, fp, disc, clr>>
  /\ UNCHANGED call

\* Object.entries(db.pages) whose title contains a query term, first three
Matching(pages, q) == SelectSeq(pages, LAMBDA e : Hit(q, e.title))

\* variant: no slice, every match is fetched
FirstNAll(seq, n) == seq

FirstN(seq, n) == SubSeq(seq, 1, Min(n, Len(seq)))

\* the next page of toFetch, or the writeDb after the loop
NextFetch(ss) ==
  IF ss.pos < Len(ss.todo) THEN [ss EXCEPT !.pos = @ + 1, !.pc = "rfetch"]
  ELSE [ss EXCEPT !.pc = "rwriteDb"]

\* const db = await readDb(); empty or no title match: the tool returns
FallbackRead ==
  /\ srch.pc = "fallback"
  /\ LET db == readDb(dbFile)
         m == Matching(db.pages, srch.q)
     IN  srch' = IF readDbThrows(dbFile) \/ Len(db.pages) = 0 \/ Len(m) = 0 THEN IdleSrch
                 ELSE [srch EXCEPT !.pc = "rfetch", !.db = db,
                                   !.todo = FirstN(m, ResolverMax), !.pos = 1]
  /\ UNCHANGED <<clock, dbFile, pagesDir, index, indexedIds, rest, run, fp, disc, clr>>
  /\ UNCHANGED call

RFetchFail ==
  /\ srch.pc = "rfetch"
  /\ srch' = NextFetch(srch)
  /\ UNCHANGED <<clock, dbFile, pagesDir, index, indexedIds, rest, run, fp, disc, clr>>
  /\ UNCHANGED call

\* fetchPage resolved, await writeCache(href, ...);
\* db.pages[href] = { title, fetchedAt: Date.now() }
RWrite ==
  LET e == srch.todo[srch.pos]
      f == urlToPath(e.href)
  IN  /\ srch.pc = "rfetch"
      /\ pagesDir' = [pagesDir EXCEPT ![f] = Content(fetchPage(e.href, clock))]
      /\ IF addToSearchIndexThrows(index, indexedIds, f)
         THEN /\ srch' = NextFetch(srch)
              /\ UNCHANGED <<clock, index, indexedIds>>
         ELSE /\ index' = addToSearchIndex(index, f, Content(fetchPage(e.href, clock)))
              /\ indexedIds' = addToIndexedIds(index, indexedIds, f)
              /\ \E t \in {clock} :
                   /\ clock' = t
                   /\ srch' = NextFetch([srch EXCEPT
                                !.db.pages = markFetched(@, e.href, e.title, t)])
      /\ UNCHANGED <<dbFile, rest, run, fp, disc, clr>>
  /\ UNCHANGED call

RWriteDb ==
  /\ srch.pc = "rwriteDb"
  /\ dbFile' = writeDb(dbFile, srch.db)
  /\ srch' = IdleSrch
  /\ UNCHANGED <<clock, pagesDir, index, indexedIds, boot, ops, run, fp, disc, clr>>
  /\ hist' = Written(hist, srch.db)
  /\ UNCHANGED call

\* ------------------------------------------------- discover, index only
DiscCall(budget) ==
  /\ Alive
  /\ disc.pc = "idle"
  /\ ops < budget
  /\ \E sec \in {0} \cup EntryPoints : disc' = [IdleDisc EXCEPT !.pc = "readDb", !.sec = sec]
  /\ UNCHANGED <<clock, dbFile, pagesDir, index, indexedIds, boot, run, fp, srch, clr>>
  /\ ops' = ops + 1
  /\ UNCHANGED hist
  /\ UNCHANGED call

DiscReadDb ==
  /\ disc.pc = "readDb"
  /\ disc' = IF readDbThrows(dbFile) THEN IdleDisc
             ELSE [disc EXCEPT !.pc = "loop", !.db = readDb(dbFile), !.ei = 1]
  /\ UNCHANGED <<clock, dbFile, pagesDir, index, indexedIds, rest, run, fp, srch, clr>>
  /\ UNCHANGED call

\* one entry point: discoverLinks resolves (its links are registered) or rejects
DiscStep ==
  /\ disc.pc = "loop"
  /\ \E ok \in BOOLEAN :
       LET d1 == IF ok THEN [disc EXCEPT !.db.pages =
                               registerAll(@, discoverLinks(Entries(disc.sec)[disc.ei])),
                                           !.found = @ \cup {Entries(disc.sec)[disc.ei]}]
                 ELSE disc
       IN  disc' = IF disc.ei < Len(Entries(disc.sec))
                   THEN [d1 EXCEPT !.ei = @ + 1]
                   ELSE [d1 EXCEPT !.pc = "writeDb"]
  /\ UNCHANGED <<clock, dbFile, pagesDir, index, indexedIds, rest, run, fp, srch, clr>>
  /\ UNCHANGED call

DiscWriteDb ==
  /\ disc.pc = "writeDb"
  /\ dbFile' = writeDb(dbFile, disc.db)
  /\ disc' = IdleDisc
  /\ UNCHANGED <<clock, pagesDir, index, indexedIds, boot, ops, run, fp, srch, clr>>
  /\ hist' = Written(hist, disc.db)
  /\ UNCHANGED call

\* ------------------------------------------------------------ clear-cache
resetSearchIndex == NoIndex

ClearCall(budget) ==
  /\ Alive
  /\ clr.pc = "idle"
  /\ ops < budget
  /\ clr' = [IdleClr EXCEPT !.pc = "scan", !.snap = Stored,
                            !.solo = IF Active = 0 THEN ops + 1 ELSE 0]
  /\ UNCHANGED <<clock, dbFile, pagesDir, index, indexedIds, boot, run, fp, srch, disc>>
  /\ ops' = ops + 1
  /\ hist' = [hist EXCEPT !.cleared = TRUE]
  /\ UNCHANGED call

\* the scan yields one file: it is deleted, count++
ClearDelete ==
  /\ clr.pc = "scan"
  /\ \E f \in Stored \ clr.seen :
       /\ pagesDir' = [pagesDir EXCEPT ![f] = NoDoc]
       /\ clr' = [clr EXCEPT !.seen = @ \cup {f}, !.count = @ + 1]
  /\ UNCHANGED <<clock, dbFile, index, indexedIds, rest, run, fp, srch, disc>>
  /\ UNCHANGED call

\* the scan is exhausted; dbFile.exists() decides whether a delete follows
ClearScanEnd ==
  /\ clr.pc = "scan"
  /\ (clr.snap \cap Stored) \subseteq clr.seen
  /\ IF dbFile.exists
     THEN /\ clr' = [clr EXCEPT !.pc = "deleteDb"]
          /\ UNCHANGED <<index, indexedIds>>
     ELSE /\ clr' = IdleClr
          /\ index' = resetSearchIndex
          /\ indexedIds' = {}
  /\ UNCHANGED <<clock, dbFile, pagesDir, rest, run, fp, srch, disc>>
  /\ UNCHANGED call

\* variant: clearCache leaves db.json in place
ClearKeepDb ==
  /\ clr.pc = "deleteDb"
  /\ index' = NoIndex
  /\ indexedIds' = {}
  /\ clr' = [pc |-> "idle", snap |-> {}, seen |-> {}, count |-> 0, solo |-> 0]
  /\ UNCHANGED <<clock, dbFile, pagesDir, boot, ops, hist, run, fp, srch, disc>>
  /\ UNCHANGED call

\* await dbFile.delete(); resetSearchIndex()
ClearDeleteDb ==
  /\ clr.pc = "deleteDb"
  /\ dbFile' = NoDbFile
  /\ index' = resetSearchIndex
  /\ indexedIds' = {}
  /\ clr' = IdleClr
  /\ UNCHANGED <<clock, pagesDir, rest, run, fp, srch, disc>>
  /\ UNCHANGED call

RunStep(r) ==
  \/ Register(r) \/ FetchFail(r) \/ WriteDone(r) \/ BatchWrite(r) \/ Finalize(r)

\* ---- one populate run at a time, nothing else in the process
NextRun ==
  \/ StartupCheck(1, MaxRuns) \/ TimerFire(1, MaxRuns)
  \/ DiscoverFetchAll(1, MaxRuns) \/ PopulateCall(1, MaxRuns)
  \/ RunStep(1)
  \/ DbTruncate
  \/ Tick
  \/ Crash

SpecRun == Init /\ [][NextRun]_vars

\* ---- the server process: background triggers and every tool handler
Next ==
  \/ \E r \in Runs : StartupCheck(r, MaxOps) \/ TimerFire(r, MaxOps) \/ DiscoverFetchAll(r, MaxOps)
  \/ \E r \in Runs : RunStep(r)
  \/ FpCall(MaxOps) \/ SearchCall(MaxOps) \/ DiscCall(MaxOps) \/ ClearCall(MaxOps)
  \/ FpFetchFail \/ FpWrite \/ FpReadDb \/ FpWriteDb
  \/ ScanFile \/ ScanEnd \/ FallbackRead \/ RFetchFail \/ RWrite \/ RWriteDb
  \/ DiscReadDb \/ DiscStep \/ DiscWriteDb
  \/ ClearDelete \/ ClearScanEnd \/ ClearDeleteDb
  \/ DbTruncate
  \/ Tick
  \/ Crash

Spec == Init /\ [][Next]_vars

\* ---- the server process when its handlers do not overlap: a handler is
\* invoked when no other is in flight
Call ==
  \/ StartupCheck(1, MaxSeqOps) \/ TimerFire(1, MaxSeqOps) \/ DiscoverFetchAll(1, MaxSeqOps)
  \/ FpCall(MaxSeqOps) \/ SearchCall(MaxSeqOps) \/ DiscCall(MaxSeqOps) \/ ClearCall(MaxSeqOps)

NextSeq ==
  \/ Active = 0 /\ Call
  \/ RunStep(1)
  \/ FpFetchFail \/ FpWrite \/ FpReadDb \/ FpWriteDb
  \/ ScanFile \/ ScanEnd \/ FallbackRead \/ RFetchFail \/ RWrite \/ RWriteDb
  \/ DiscReadDb \/ DiscStep \/ DiscWriteDb
  \/ ClearDelete \/ ClearScanEnd \/ ClearDeleteDb
  \/ DbTruncate
  \/ Tick
  \/ Crash

SpecSeq == Init /\ [][NextSeq]_vars

\* ==================================================================== claims
\* isStale(entry, now, ttl) as the specification states it
Stale(fetchedAt, now, ttl) == fetchedAt = Absent \/ now - fetchedAt >= ttl

Eligible(rr) == {j \in 1..Len(rr.links) : Stale(rr.was[j], rr.now, rr.ttl)}

Failed(rr) == {j \in 1..Len(rr.st) : rr.st[j] = "err"}

\* the pages that a reader of db.json finds
Persisted == IF readDbThrows(dbFile) THEN <<>> ELSE readDb(dbFile).pages

PersistedAt(h) == IF HasKey(Persisted, h) THEN EntryOf(Persisted, h).fetchedAt ELSE Absent

FetchPhase == {"batch", "persist", "finalize"}

\* the summary of a run that reaches the end of populate, and db.json then
Accounted(rr, file) ==
  LET pages == IF readDbThrows(file) THEN <<>> ELSE readDb(file).pages
  IN  /\ \A j \in 1..Len(rr.links) : rr.st[j] \in Settled
      /\ Failed(rr) \subseteq Eligible(rr)
      /\ rr.errors = Cardinality(Failed(rr))
      /\ rr.fetched = Cardinality(Eligible(rr)) - Cardinality(Failed(rr))
      /\ \A j \in 1..Len(rr.links) : HasKey(pages, rr.links[j].href)
      /\ \A j \in Eligible(rr) \ Failed(rr) :
           EntryOf(pages, rr.links[j].href).fetchedAt >= rr.now
      /\ \A j \in Failed(rr) : EntryOf(pages, rr.links[j].href).fetchedAt = rr.was[j]

\* a run that has not returned waits for an I/O completion that is a step
\* of the run: discovery and readDb, a page fetch, or a writeDb
Waiting(rr) ==
  \/ rr.pc \in {"idle", "discover", "persist", "finalize"}
  \/ rr.pc = "batch" /\ \E j \in 1..Len(rr.st) : rr.st[j] \in InFlight

\* C1: a failed fetch never aborts a populate run: after every step a run
\* that has not returned still has a next step, a failed fetch leaves it in
\* the batch loop, and when its last writeDb resolves every link is settled, the
\* error count is the number |F| of failed fetches, the success count is
\* (eligible - |F|), every eligible key outside F has a fresh fetchedAt in
\* db.json and every key of F has the fetchedAt it had before the run.
C1_PopulateResilience ==
  [][\A r \in Runs :
       /\ Waiting(run'[r])
       /\ FetchFail(r) => run'[r].pc \in FetchPhase
       /\ Finalize(r) => Accounted(run[r], dbFile')]_vars

\* a run at its end with one failed and one successful fetch
C1_Witness ==
  \E r \in Runs :
    /\ run[r].pc = "finalize"
    /\ Failed(run[r]) # {}
    /\ Eligible(run[r]) \ Failed(run[r]) # {}

\* C2: no registry update is lost: once every handler has finished (and
\* clear-cache never ran, and db.json is a complete document) db.json holds
\* every key, every fetchedAt and the populatedAt that any handler has
\* written to it.
C2_NoLostUpdate ==
  (Active = 0 /\ ~hist.cleared /\ ~readDbThrows(dbFile)) =>
    /\ \A h \in hist.keys : HasKey(Persisted, h)
    /\ \A h \in hist.fetched : PersistedAt(h) # Absent
    /\ hist.populated => readDb(dbFile).populatedAt # Absent

\* C3: at most one populate run is active at any time.
C3_SingleFlight == Cardinality(ActiveRuns) <= 1

\* C4: whenever clear-cache is not in the middle of its own deletions, every
\* entry of db.json that is marked fetched has its document in the store.
C4_FetchedHasDocument ==
  clr.pc = "idle" =>
    \A n \in 1..Len(Persisted) :
      Persisted[n].fetchedAt # Absent => pagesDir[urlToPath(Persisted[n].href)] # NoDoc

\* C5: every document in the store has an entry in db.json.
C5_DocumentHasEntry ==
  \A f \in Stored : \E n \in 1..Len(Persisted) : urlToPath(Persisted[n].href) = f

SavedOk(rr, j) ==
  /\ PersistedAt(rr.links[j].href) # Absent
  /\ PersistedAt(rr.links[j].href) = EntryOf(rr.db.pages, rr.links[j].href).fetchedAt

\* C6: db.json is written after every batch: at any point of the batch loop,
\* where a kill of the process leaves db.json as it is, it holds the fresh fetchedAt of every page fetched in a batch before the
\* current one, so the pages fetched but not yet saved are at most
\* `concurrency` (the current batch).
C6_BatchProgressPersisted ==
  \A r \in Runs :
    LET rr == run[r]
    IN  rr.pc \in {"batch", "persist"} =>
          /\ \A j \in 1..Len(rr.links) : (rr.st[j] = "ok" /\ j <= rr.i) => SavedOk(rr, j)
          /\ Cardinality({j \in 1..Len(rr.links) : rr.st[j] = "ok" /\ ~SavedOk(rr, j)}) <= rr.conc

\* C7: during the whole fetch phase every discovered key is listed in
\* db.json (it was saved as pending before the first fetch started).
C7_RegisteredBeforeFetch ==
  \A r \in Runs :
    run[r].pc \in FetchPhase =>
      \A j \in 1..Len(run[r].links) : HasKey(Persisted, run[r].links[j].href)

BatchOf(rr, j) == (j - 1) \div rr.conc

\* C8: batches are sequential: when a fetch of batch n has started, every
\* fetch of the batches before n has settled and the n registry writes that
\* follow those batches have completed.
C8_BatchesSequential ==
  \A r \in Runs :
    LET rr == run[r]
    IN  \A j \in 1..Len(rr.st) :
          rr.st[j] # "new" =>
            /\ rr.nw >= BatchOf(rr, j)
            /\ \A k \in 1..Len(rr.st) : BatchOf(rr, k) < BatchOf(rr, j) => rr.st[k] \in Settled

\* a fetch of the second batch is in flight after a first batch of two
C8_Witness ==
  \E r \in Runs : \E j \in 1..Len(run[r].st) :
    run[r].conc >= 2 /\ run[r].st[j] \in InFlight /\ BatchOf(run[r], j) >= 1

\* C9: the fetches of one run that are in flight never exceed `concurrency`.
C9_BoundedFanOut ==
  \A r \in Runs :
    Cardinality({j \in 1..Len(run[r].st) : run[r].st[j] \in InFlight}) <= run[r].conc

\* as many fetches in flight as allowed, and more links than that
C9_Witness ==
  \E r \in Runs :
    /\ run[r].conc >= 2
    /\ Cardinality({j \in 1..Len(run[r].st) : run[r].st[j] \in InFlight}) = run[r].conc
    /\ Len(run[r].links) > run[r].conc

\* C10: a link is skipped iff its entry, as loaded by the run, is not stale
\* at the run's `now`; otherwise it is fetched.
C10_FetchIffStale ==
  \A r \in Runs :
    LET rr == run[r]
    IN  \A j \in 1..Len(rr.st) :
          rr.st[j] # "new" => (rr.st[j] = "skip" <=> ~Stale(rr.was[j], rr.now, rr.ttl))

\* one run skips a fresh page and fetches again a page whose age reached ttl
C10_Witness ==
  \E r \in Runs : \E j, k \in 1..Len(run[r].st) :
    /\ run[r].ttl > 0
    /\ run[r].st[j] = "skip"
    /\ run[r].was[k] # Absent /\ run[r].st[k] = "ok"

\* `new` is `old` after the registration of `links`: the entries of old are
\* as they were, the other entries are pending, no key has two entries,
\* every link has an entry, and registering the links again changes nothing
Registered(old, new, links) ==
  /\ \A n \in 1..Len(old) : HasKey(new, old[n].href) /\ EntryOf(new, old[n].href) = old[n]
  /\ \A n \in 1..Len(new) : ~HasKey(old, new[n].href) => new[n].fetchedAt = Absent
  /\ \A m, n \in 1..Len(new) : new[m].href = new[n].href => m = n
  /\ \A j \in 1..Len(links) : HasKey(new, links[j].href)
  /\ registerAll(new, links) = new

\* C11: registration is idempotent and non-destructive: the Register step of
\* populate and every entry-point step of discover (index only) leave the
\* title and fetchedAt of every known key as they were, insert an unknown
\* key as pending exactly once, and change nothing when repeated.
C11_IdempotentRegistration ==
  [][/\ \A r \in Runs :
          (Register(r) /\ run'[r].pc # "idle") =>
            Registered(readDb(dbFile).pages, run'[r].db.pages, run'[r].links)
     /\ DiscStep =>
          \/ disc'.db.pages = disc.db.pages
          \/ Registered(disc.db.pages, disc'.db.pages,
                        discoverLinks(Entries(disc.sec)[disc.ei]))]_vars

\* discover (index only) has registered the links of an entry point, one
\* of which was already in the registry as fetched
C11_Witness ==
  /\ disc.pc = "writeDb"
  /\ Len(disc.db.pages) >= 2
  /\ \E n \in 1..Len(disc.db.pages) :
       disc.db.pages[n].href = PathOf(NumKeys) /\ disc.db.pages[n].fetchedAt # Absent

\* the populatedAt that a reader of db.json finds
PopulatedAtOnDisk == IF readDbThrows(dbFile) THEN Absent ELSE readDb(dbFile).populatedAt

\* C12: populatedAt is set only at the end of a full populate run: the step
\* that puts the first populatedAt into db.json is the final writeDb of a
\* populate run over all sections.
C12_PopulatedAtOnlyByFullRun ==
  [][(~hist.populated /\ PopulatedAtOnDisk = Absent /\ PopulatedAtOnDisk' # Absent) =>
       \E r \in Runs : Finalize(r) /\ run[r].sec = 0]_vars

\* clear-cache returns in this step, and no other handler has been in flight
\* since it was called
ClearReturnsAlone ==
  /\ (ClearScanEnd /\ clr'.pc = "idle") \/ ClearDeleteDb
  /\ clr.solo = ops
  /\ Active = 1

\* C13: when clear-cache returns after running with no other operation in
\* flight, the content store is empty, db.json is gone (readDb yields the
\* empty registry with populatedAt absent), the search index is reset and no
\* query has a local result, and the count returned is the number of
\* documents that were in the store when it was called.
C13_ClearCompleteness ==
  [][ClearReturnsAlone =>
       /\ \A f \in Files : pagesDir'[f] = NoDoc
       /\ ~readDbThrows(dbFile') /\ readDb(dbFile') = EmptyDb
       /\ index' = NoIndex /\ indexedIds' = {}
       /\ \A q \in Queries : LocalResults(index', q) = {}
       /\ clr.count = Cardinality(clr.snap)]_vars

\* clear-cache, alone, has deleted at least one document and is about to
\* delete db.json
C13_Witness == clr.pc = "deleteDb" /\ clr.solo = ops /\ Active = 1 /\ clr.count >= 1

\* C14: clear-cache is one step for whoever runs beside it: while it is in
\* progress neither the search index nor db.json refers to a document that
\* it has already deleted.
C14_ClearIsOneStep ==
  clr.pc # "idle" =>
    \A f \in clr.seen :
      pagesDir[f] = NoDoc =>
        /\ index.docs[f] = NoDoc
        /\ \A n \in 1..Len(Persisted) :
             urlToPath(Persisted[n].href) = f => Persisted[n].fetchedAt = Absent

\* the term that occurs only in the document stored as f
TermOf(f) == pagesDir[f].title[1]

\* C15: a document written by writeCache is found by the next search for a
\* term that only it contains: when the index is built (the writer has
\* upserted it) index.search returns it, and when the index is not built the
\* lazy rebuild of the query returns it.
C15_WrittenIsFound ==
  [][/\ (Active' = 0 /\ index'.built) =>
          \A f \in Stored' : f \in LocalResults(index', {TermOf(f)'})
     /\ (ScanEnd /\ ~addAllThrows(index, srch.docs)) =>
          \A f \in Stored : TermOf(f) \in srch.q => f \in LocalResults(index', srch.q)]_vars

\* fetch-page has just written a document while the index was built, and
\* the index finds it
C15_Witness ==
  /\ fp.pc = "readDb"
  /\ index.built
  /\ urlToPath(fp.url) \in LocalResults(index, {TermOf(urlToPath(fp.url))})

\* C16: while the index is not built (process start, or after
\* resetSearchIndex) a search starts a rebuild from the content store, and
\* when the rebuild finishes the index holds exactly the documents of the
\* store, each with its stored text, indexedIds is the set of their names
\* and the number of documents read is the number of documents stored.
C16_RebuildFromStore ==
  [][/\ ((\E b \in 1..MaxSeqOps : SearchCall(b)) /\ ~index.built) => (srch'.pc = "scan" /\ index'.built)
     /\ ScanEnd =>
          /\ \A f \in Files : index'.docs[f] = pagesDir[f]
          /\ indexedIds' = Stored
          /\ Len(srch.docs) = Cardinality(Stored)]_vars

\* a rebuild has read every document of a store that is not empty
C16_Witness ==
  /\ srch.pc = "scan"
  /\ Stored # {}
  /\ Stored = {srch.docs[n].id : n \in 1..Len(srch.docs)}

\* the terms of a text: the topic of its page and the mark of its revision
TermsOf(doc) == {<<"topic", doc.title[1]>>, <<"rev", doc.title[1], doc.rev>>}

\* index.search(term) returns the entry of key f
Matches(idx, f, term) == idx.docs[f] # NoDoc /\ term \in TermsOf(idx.docs[f])

\* C17: the index holds at most one entry per key, and for a key in the
\* content store that entry is the text of the latest write: every term of
\* that text matches the key and no term that only an earlier text of the
\* key contained does; a write over an indexed key replaces its entry.
C17_IndexHoldsLatest ==
  [][/\ \A f \in Stored' : index'.docs[f] # NoDoc =>
          \A doc \in {index.docs[f], pagesDir[f], pagesDir'[f]} : \A term \in TermsOf(doc) :
             Matches(index', f, term) <=> term \in TermsOf(pagesDir'[f])
     /\ \A f \in Files :
          (index.docs[f] # NoDoc /\ pagesDir'[f] # pagesDir[f] /\ pagesDir'[f] # NoDoc) =>
             /\ index'.docs[f] = pagesDir'[f]
             /\ f \in indexedIds'
             /\ ~Matches(index', f, <<"rev", index.docs[f].title[1], index.docs[f].rev>>)]_vars

\* a populate run has fetched again a page whose text of the week before was
\* in the index, and the index holds the new text
C17_Witness ==
  \E r \in Runs : \E j \in 1..Len(run[r].st) :
    /\ run[r].st[j] = "ok"
    /\ run[r].was[j] # Absent
    /\ index.built
    /\ index.docs[urlToPath(run[r].links[j].href)].rev = clock
    /\ clock > run[r].was[j]

\* the startup check resolves in this step
StartupChecked == \E r \in Runs, b \in 1..MaxRuns : StartupCheck(r, b)

\* this step starts a populate run
PopulateTriggered == \E r \in Runs : run[r].pc = "idle" /\ run'[r].pc = "discover"

\* C18: the startup check starts a populate run exactly when db.json, as a
\* reader finds it, holds no populatedAt.
C18_StartupPopulateIffAbsent ==
  [][StartupChecked => (PopulateTriggered <=> PopulatedAtOnDisk = Absent)]_vars

\* C19: a failure inside the startup check (its readDb included) or inside a
\* run that a trigger started leaves the process running, so that the weekly
\* timer can fire afterwards.
C19_TriggerFailureContained ==
  [][(StartupChecked \/ \E r \in Runs : Register(r) /\ readDbThrows(dbFile)) => (Alive => Alive')]_vars

\* a caller's await readDb() settles in this step
LoadsRegistry ==
  \/ StartupChecked
  \/ \E r \in Runs : Register(r)
  \/ FpReadDb \/ FallbackRead \/ DiscReadDb

\* C20: readDb never raises: whenever a caller loads the registry it gets a
\* registry, the fresh empty one when db.json is missing or does not parse.
C20_ReadDbFailOpen ==
  [][LoadsRegistry =>
       /\ ~readDbThrows(dbFile)
       /\ (~dbFile.exists \/ dbFile.torn) => readDb(dbFile) = EmptyDb]_vars

\* C21: writeDb replaces db.json atomically: at every point, also while a
\* writeDb is in progress, the file is missing or holds a complete registry
\* (the previous one or the new one), never a truncated document.
C21_AtomicSave == dbFile.exists => ~dbFile.torn

\* every link of the entry points in `found` has an entry in `pages`
AllRegistered(found, pages) ==
  \A e \in found : \A n \in 1..Len(discoverLinks(e)) : HasKey(pages, discoverLinks(e)[n].href)

\* C22: a discovery failure of one entry point is only logged: populate
\* still has, and registers, every link of every entry point that it logged
\* as discovered (those after the failed one included) and goes on to the
\* fetch phase; discover (index only) goes on to the next entry point,
\* registers the links of every entry point it reports as found, and saves.
C22_DiscoveryFailureSkipped ==
  [][/\ \A r \in Runs : (Register(r) /\ ~readDbThrows(dbFile)) =>
          /\ run'[r].pc \in FetchPhase
          /\ AllRegistered(run'[r].found, run'[r].db.pages)
          /\ \A e \in run'[r].found : \A n \in 1..Len(discoverLinks(e)) :
                \E j \in 1..Len(run'[r].links) : run'[r].links[j].href = discoverLinks(e)[n].href
     /\ DiscStep =>
          /\ disc'.pc = IF disc.ei < Len(Entries(disc.sec)) THEN "loop" ELSE "writeDb"
          /\ disc'.found \in {disc.found, disc.found \cup {Entries(disc.sec)[disc.ei]}}
          /\ AllRegistered(disc'.found, disc'.db.pages)
     /\ DiscWriteDb => AllRegistered(disc.found, readDb(dbFile').pages)]_vars

\* a run over all sections whose first entry point failed is in its fetch
\* phase with the pages of the second one
C22_Witness ==
  \E r \in Runs :
    /\ run[r].pc = "batch"
    /\ run[r].sec = 0
    /\ run[r].found = {NumEntryPoints}
    /\ \E j \in 1..Len(run[r].st) : run[r].st[j] = "fetching"

\* ------------------------------------------- the resolver on a registry
\* One search call on a cache left by earlier handlers: db.json holds up to
\* MaxEntries entries in any order (pending ones under the paths that
\* discovery registers, fetched ones under the full urls that fetch-page
\* registers), and the content store holds any set of documents.
Registries ==
  {[n \in DOMAIN keys |->
      [href |-> keys[n],
       title |-> IF keys[n].abs THEN PageTitle(keys[n].page) ELSE LinkTitle(keys[n].page, 1),
       fetchedAt |-> IF keys[n].abs THEN 1 ELSE Absent]] :
     keys \in {k \in UNION {[1..n -> Urls] : n \in 0..MaxEntries} :
                 \A i, j \in DOMAIN k : k[i] = k[j] => i = j}}

InitRes ==
  /\ clock = 2
  /\ \E pages \in Registries : dbFile = writeDb(NoDbFile, [populatedAt |-> Absent, pages |-> pages])
  /\ \E S \in SUBSET Files :
       pagesDir = [f \in Files |-> IF f \in S THEN Content(fetchPage(PathOf(f), 1)) ELSE NoDoc]
  /\ index = NoIndex
  /\ indexedIds = {}
  /\ boot = "done"
  /\ run = [r \in Runs |-> IdleRun]
  /\ fp = IdleFp
  /\ srch = IdleSrch
  /\ disc = IdleDisc
  /\ clr = IdleClr
  /\ ops = 0
  /\ hist = NoHist
  /\ call = NoCall

NextRes ==
  \/ SearchCall(1)
  \/ ScanFile \/ ScanEnd \/ FallbackRead \/ RFetchFail \/ RWrite \/ RWriteDb

SpecRes == InitRes /\ [][NextRes]_vars

\* the positions in pages of the entries whose title contains a query term
MatchPos(pages, q) == {n \in 1..Len(pages) : Hit(q, pages[n].title)}

\* C23: the resolver runs only after a local search with zero results; on an
\* empty registry it returns without a fetch; otherwise the pages it fetches
\* are the first ResolverMax entries, in the order of the registry, whose
\* title contains a query term, so never more than ResolverMax, and a fetch
\* that fails is followed by the fetch of the next one.
C23_ResolverBounded ==
  [][/\ (srch.pc # "fallback" /\ srch'.pc = "fallback") => LocalResults(index', srch'.q) = {}
     /\ FallbackRead =>
          LET pages == readDb(dbFile).pages
              pos == MatchPos(pages, srch.q)
          IN  /\ (pages = <<>> \/ pos = {}) => (srch' = IdleSrch /\ pagesDir' = pagesDir /\ dbFile' = dbFile)
              /\ pos # {} =>
                   /\ srch'.pc = "rfetch" /\ srch'.pos = 1
                   /\ Len(srch'.todo) = Min(ResolverMax, Cardinality(pos))
                   /\ \A i \in 1..Len(srch'.todo) : \E n \in pos :
                        /\ Cardinality({m \in pos : m < n}) = i - 1
                        /\ srch'.todo[i].href = pages[n].href
                        /\ srch'.todo[i].title = pages[n].title
     /\ (RFetchFail \/ RWrite) =>
          /\ srch.pos <= ResolverMax
          /\ IF srch.pos < Len(srch.todo)
             THEN srch'.pc = "rfetch" /\ srch'.pos = srch.pos + 1 /\ srch'.todo = srch.todo
             ELSE srch'.pc = "rwriteDb"
     /\ \A f \in Files : pagesDir'[f] # pagesDir[f] =>
          /\ srch.pc = "rfetch"
          /\ urlToPath(srch.todo[srch.pos].href) = f]_vars

\* more than ResolverMax entries matched; the first fetch failed, the last
\* of the ResolverMax fetches succeeded, and the handler is at its writeDb
C23_Witness ==
  /\ srch.pc = "rwriteDb"
  /\ Len(srch.todo) = ResolverMax
  /\ Cardinality(MatchPos(srch.db.pages, srch.q)) > ResolverMax
  /\ EntryOf(srch.db.pages, srch.todo[1].href).fetchedAt < clock
  /\ EntryOf(srch.db.pages, srch.todo[ResolverMax].href).fetchedAt = clock

\* the fetch-page tool is called in this step
FpCalled == \E b \in {MaxOps, MaxSeqOps} : FpCall(b)

\* C24: fetch-page returns the cached document without a fetch and without
\* a change to the store or the registry; on a miss it fetches, and when the
\* fetch succeeds it writes the document, then (the registry being
\* readable) upserts the entry of the requested url with the time of the
\* call as fetchedAt and saves the registry; a failed fetch changes nothing.
C24_FetchPageCachedOrFresh ==
  [][/\ FpCalled =>
          /\ UNCHANGED <<pagesDir, dbFile, index, indexedIds>>
          /\ fp'.pc = "idle" => (fp' = fp /\ Stored # {})
          /\ fp'.pc # "idle" => (fp'.pc = "fetch" /\ pagesDir[urlToPath(fp'.url)] = NoDoc)
     /\ FpFetchFail => (UNCHANGED <<pagesDir, dbFile>> /\ fp'.pc = "idle")
     /\ FpWrite =>
          /\ pagesDir'[urlToPath(fp.url)] = Content(fetchPage(fp.url, clock))
          /\ \A f \in Files \ {urlToPath(fp.url)} : pagesDir'[f] = pagesDir[f]
          /\ fp'.pc = "readDb"
     /\ (FpReadDb /\ ~readDbThrows(dbFile)) => fp'.pc = "writeDb"
     /\ FpWriteDb =>
          /\ ~readDbThrows(dbFile')
          /\ HasKey(readDb(dbFile').pages, fp.url)
          /\ EntryOf(readDb(dbFile').pages, fp.url) =
               [href |-> fp.url, title |-> PageTitle(fp.url.page), fetchedAt |-> clock]
          /\ pagesDir[urlToPath(fp.url)] = Content(fetchPage(fp.url, clock))]_vars

\* fetch-page has fetched a page that the registry held as pending and is
\* about to save the registry with the entry marked as fetched
C24_Witness ==
  /\ fp.pc = "writeDb"
  /\ HasKey(Persisted, fp.url)
  /\ PersistedAt(fp.url) = Absent
  /\ EntryOf(fp.db.pages, fp.url).fetchedAt = clock

\* ------------------------------------------------ functions on their own
\* A string is a sequence of characters.
Strings(chars, n) == UNION {[1..k -> chars] : k \in 0..n}

\* the other variables of a state in which one function is evaluated
Quiet ==
  /\ clock = 1
  /\ dbFile = NoDbFile
  /\ pagesDir = [f \in Files |-> NoDoc]
  /\ index = NoIndex
  /\ indexedIds = {}
  /\ boot = "done"
  /\ run = [r \in Runs |-> IdleRun]
  /\ fp = IdleFp
  /\ srch = IdleSrch
  /\ disc = IdleDisc
  /\ clr = IdleClr
  /\ ops = 0
  /\ hist = NoHist

\* ---------------------------------------------------------- matchesGlob
\* the characters that pattern.replace(/[.+^${}()|[\]\\]/g, "\\$&") escapes
RegexMeta == {".", "+", "^", "$", "{", "}", "(", ")", "|", "[", "]", "\\"}

\* variant: no character is escaped
RECURSIVE EscapeNone(_)
EscapeNone(p) == p

RECURSIVE EscapeMeta(_)
EscapeMeta(p) ==
  IF p = <<>> THEN <<>>
  ELSE (IF Head(p) \in RegexMeta THEN <<"\\", Head(p)>> ELSE <<Head(p)>>) \o EscapeMeta(Tail(p))

\* .replace(/\*/g, ".*")
RECURSIVE StarToRegex(_)
StarToRegex(p) ==
  IF p = <<>> THEN <<>>
  ELSE (IF Head(p) = "*" THEN <<".", "*">> ELSE <<Head(p)>>) \o StarToRegex(Tail(p))

\* .replace(/\?/g, ".")
RECURSIVE QuestionToRegex(_)
QuestionToRegex(p) ==
  IF p = <<>> THEN <<>>
  ELSE (IF Head(p) = "?" THEN <<".">> ELSE <<Head(p)>>) \o QuestionToRegex(Tail(p))

GlobToRegex(pattern) == QuestionToRegex(StarToRegex(EscapeMeta(pattern)))

\* new RegExp(re): the atoms of the source, each with its quantifier;
\* "\\" c is the character c, "." is any character, "*" repeats the atom
\* before it, "?" makes it optional (or the repetition before it lazy)
RECURSIVE RegExpAtoms(_)
RegExpAtoms(re) ==
  IF re = <<>> THEN <<>>
  ELSE LET esc == Head(re) = "\\" /\ Len(re) >= 2
           n == IF esc THEN 2 ELSE 1
           atom == IF esc THEN [any |-> FALSE, c |-> re[2]]
                   ELSE IF Head(re) = "." THEN [any |-> TRUE, c |-> "."]
                   ELSE [any |-> FALSE, c |-> Head(re)]
           q == IF Len(re) > n /\ re[n + 1] \in {"*", "?"} THEN re[n + 1] ELSE ""
           m == IF q = "" THEN n
                ELSE IF q = "*" /\ Len(re) > n + 1 /\ re[n + 2] = "?" THEN n + 2 ELSE n + 1
       IN  <<[any |-> atom.any, c |-> atom.c, q |-> q]>> \o RegExpAtoms(SubSeq(re, m + 1, Len(re)))

\* new RegExp(re) raises SyntaxError: a quantifier with nothing to repeat,
\* or a lone backslash at the end
RECURSIVE RegExpThrows(_)
RegExpThrows(re) ==
  IF re = <<>> THEN FALSE
  ELSE IF Head(re) \in {"*", "?"} THEN TRUE
  ELSE IF Head(re) = "\\" THEN Len(re) = 1 \/ RegExpThrows(SubSeq(re, 3, Len(re)))
  ELSE LET n == IF Len(re) >= 2 /\ re[2] \in {"*", "?"}
                THEN (IF Len(re) >= 3 /\ re[3] = "?" THEN 3 ELSE 2) ELSE 1
       IN  RegExpThrows(SubSeq(re, n + 1, Len(re)))

\* the atoms match a prefix of s
RECURSIVE MatchPrefix(_, _)
MatchPrefix(atoms, s) ==
  IF atoms = <<>> THEN TRUE
  ELSE LET a == Head(atoms)
       IN  CASE a.q = "*" -> \/ MatchPrefix(Tail(atoms), s)
                             \/ s # <<>> /\ (a.any \/ a.c = Head(s)) /\ MatchPrefix(atoms, Tail(s))
             [] a.q = "?" -> \/ MatchPrefix(Tail(atoms), s)
                             \/ s # <<>> /\ (a.any \/ a.c = Head(s)) /\ MatchPrefix(Tail(atoms), Tail(s))
             [] OTHER -> s # <<>> /\ (a.any \/ a.c = Head(s)) /\ MatchPrefix(Tail(atoms), Tail(s))

\* re.test(s): the expression matches from some position of s
RegExpTest(re, s) ==
  \E i \in 1..(Len(s) + 1) : MatchPrefix(RegExpAtoms(re), SubSeq(s, i, Len(s)))

matchesGlobThrows(pattern) == RegExpThrows(GlobToRegex(pattern))

matchesGlob(url, pattern) == RegExpTest(GlobToRegex(pattern), url)

GlobReturn ==
  /\ call.fn = "matchesGlob" /\ call.st = "called"
  /\ call' = IF matchesGlobThrows(call.in[2]) THEN [call EXCEPT !.st = "raised"]
             ELSE [call EXCEPT !.st = "returned", !.out = matchesGlob(call.in[1], call.in[2])]
  /\ UNCHANGED <<clock, dbFile, pagesDir, index, indexedIds, boot, run, fp, srch, disc, clr, ops, hist>>

\* the arguments: a subject and a pattern of up to MaxStr characters
InitGlob ==
  /\ Quiet
  /\ \E u \in Strings({"a", "b", "c", "."}, MaxStr), p \in Strings({"a", ".", "*", "?"}, MaxStr) :
       call = CallOf("matchesGlob", <<u, p>>)

SpecGlob == InitGlob /\ [][GlobReturn]_vars

\* the glob p matches the whole of s: `*` any run, `?` one character, any
\* other character itself
RECURSIVE GlobFull(_, _)
GlobFull(s, p) ==
  IF p = <<>> THEN s = <<>>
  ELSE CASE Head(p) = "*" -> GlobFull(s, Tail(p)) \/ (s # <<>> /\ GlobFull(Tail(s), p))
         [] Head(p) = "?" -> s # <<>> /\ GlobFull(Tail(s), Tail(p))
         [] OTHER -> s # <<>> /\ Head(s) = Head(p) /\ GlobFull(Tail(s), Tail(p))

\* the glob p matches some contiguous part of s
GlobSomewhere(s, p) ==
  \E i \in 1..(Len(s) + 1) : \E j \in (i - 1)..Len(s) : GlobFull(SubSeq(s, i, j), p)

Returned(fn) == call.fn = fn /\ call.st = "returned"

\* C26: matchesGlob is anchored at both ends: it returns true exactly when
\* the pattern matches the whole subject.
C26_GlobAnchored ==
  Returned("matchesGlob") => call.out = GlobFull(call.in[1], call.in[2])

\* C27: in matchesGlob a character other than `*` and `?` matches only
\* itself, also when it is a metacharacter of regular expressions, and the
\* function returns a boolean for every pattern: its result is that of the
\* glob, with literal characters, matched against the parts of the subject.
C27_GlobLiterals ==
  /\ call.fn = "matchesGlob" => call.st # "raised"
  /\ Returned("matchesGlob") =>
       /\ call.out \in BOOLEAN
       /\ call.out = GlobSomewhere(call.in[1], call.in[2])

\* the pattern "." has been matched against "a" and against "."
C27_Witness ==
  /\ Returned("matchesGlob")
  /\ call.in[2] = <<".">>
  /\ call.in[1] \in {<<"a">>, <<".">>}
  /\ call.out = (call.in[1] = <<".">>)

\* ------------------------------------- search: the filter and the limit
\* files: [given, list]; given is FALSE when the argument is absent
NoFiles == [given |-> FALSE, list |-> <<>>]

\* files.some((pattern) => matchesGlob(r.url, pattern))
SomeGlob(url, list) == \E n \in 1..Len(list) : matchesGlob(url, list[n])

\* variant: raw.slice(0, maxResults) before the filter
searchSliceFirst(raw, maxResults, files) ==
  LET cut == SubSeq(raw, 1, Min(maxResults, Len(raw)))
  IN  IF files.given /\ Len(files.list) > 0
      THEN SelectSeq(cut, LAMBDA url : SomeGlob(url, files.list))
      ELSE cut

\* search(query, maxResults, files) from the ranked hits raw of
\* index.search(query): if (files?.length) raw = raw.filter(...);
\* results = raw.slice(0, maxResults)
searchResults(raw, maxResults, files) ==
  LET kept == IF files.given /\ Len(files.list) > 0
              THEN SelectSeq(raw, LAMBDA url : SomeGlob(url, files.list))
              ELSE raw
  IN  SubSeq(kept, 1, Min(maxResults, Len(kept)))

\* the ranked hits of a query: the urls "a", "b", "ab" in any order, without repetition
RankedHits ==
  {r \in Strings({<<"a">>, <<"b">>, <<"a", "b">>}, 3) : \A i, j \in DOMAIN r : r[i] = r[j] => i = j}

\* files: absent, or up to MaxPatterns of the patterns "a", "*b", "c"
FilesArgs ==
  {NoFiles} \cup {[given |-> TRUE, list |-> l] :
                    l \in Strings({<<"a">>, <<"*", "b">>, <<"c">>}, MaxPatterns)}

SearchReturn ==
  /\ call.fn = "search" /\ call.st = "called"
  /\ call' = [call EXCEPT !.st = "returned",
                           !.out = searchResults(call.in[1], call.in[2], call.in[3])]
  /\ UNCHANGED <<clock, dbFile, pagesDir, index, indexedIds, boot, run, fp, srch, disc, clr, ops, hist>>

InitSearch ==
  /\ Quiet
  /\ \E raw \in RankedHits, lim \in 1..MaxLimit, files \in FilesArgs :
       call = CallOf("search", <<raw, lim, files>>)

SpecSearch == InitSearch /\ [][SearchReturn]_vars

\* the positions of the ranked hits that the patterns let through
KeptPos(raw, files) ==
  {n \in 1..Len(raw) :
     (files.given /\ files.list # <<>>) =>
        \E k \in 1..Len(files.list) : matchesGlob(raw[n], files.list[k])}

\* C25: search filters by the patterns before it applies the limit: it
\* returns, in rank order, the first min(limit, n) of the n ranked hits
\* whose url matches a pattern, and with no patterns (absent or empty) the
\* first min(limit, n) of all hits.
C25_FilterBeforeLimit ==
  Returned("search") =>
    LET raw == call.in[1]
        pos == KeptPos(raw, call.in[3])
    IN  /\ Len(call.out) = Min(call.in[2], Cardinality(pos))
        /\ \A i \in 1..Len(call.out) : \E n \in pos :
             /\ Cardinality({m \in pos : m < n}) = i - 1
             /\ call.out[i] = raw[n]
        /\ (~call.in[3].given \/ call.in[3].list = <<>>) => pos = 1..Len(raw)

\* a hit ranked beyond the limit is returned because the hits ranked above
\* it do not match the patterns
C25_Witness ==
  /\ Returned("search")
  /\ call.in[3].given
  /\ \E n \in 1..Len(call.in[1]) :
       /\ n > call.in[2]
       /\ \E i \in 1..Len(call.out) : call.out[i] = call.in[1][n]

\* ------------------------------------------------- matchesVersionFilter
\* s.split(sep)
RECURSIVE Split(_, _)
Split(str, sep) ==
  IF \A n \in 1..Len(str) : str[n] # sep THEN <<str>>
  ELSE LET n == CHOOSE k \in 1..Len(str) : str[k] = sep /\ \A j \in 1..(k - 1) : str[j] # sep
       IN  <<SubSeq(str, 1, n - 1)>> \o Split(SubSeq(str, n + 1, Len(str)), sep)

\* s.trim()
RECURSIVE Trim(_)
Trim(str) ==
  IF str = <<>> THEN str
  ELSE IF Head(str) = " " THEN Trim(Tail(str))
  ELSE IF str[Len(str)] = " " THEN Trim(SubSeq(str, 1, Len(str) - 1))
  ELSE str

Digits == <<"0", "1", "2", "3", "4", "5", "6", "7", "8", "9">>
IsDigit(c) == \E n \in 1..10 : Digits[n] = c
DigitVal(c) == (CHOOSE n \in 1..10 : Digits[n] = c) - 1

RECURSIVE DecimalValue(_)
DecimalValue(str) ==
  IF str = <<>> THEN 0 ELSE 10 * DecimalValue(SubSeq(str, 1, Len(str) - 1)) + DigitVal(str[Len(str)])

\* Number(s): blank is 0, a run of digits is its value, anything else is NaN
NaN == [nan |-> TRUE, v |-> 0]
Num(v) == [nan |-> FALSE, v |-> v]
Number(str) ==
  LET t == Trim(str)
  IN  IF \A n \in 1..Len(t) : IsDigit(t[n]) THEN Num(DecimalValue(t)) ELSE NaN

\* variant: the comparison stops at the end of the shorter version
RECURSIVE CompareCommon(_, _, _)
CompareCommon(pa, pb, i) ==
  IF i > Min(Len(pa), Len(pb)) THEN Num(0)
  ELSE LET na == Number(pa[i])
           nb == Number(pb[i])
       IN  IF na.nan \/ nb.nan THEN NaN
           ELSE IF na.v # nb.v THEN Num(na.v - nb.v)
           ELSE CompareCommon(pa, pb, i + 1)

\* the loop of compareVersions from component i: pa[i] ?? 0, pb[i] ?? 0;
\* NaN !== n holds for every n, and NaN - n is NaN
RECURSIVE CompareFrom(_, _, _)
CompareFrom(pa, pb, i) ==
  IF i > (IF Len(pa) > Len(pb) THEN Len(pa) ELSE Len(pb)) THEN Num(0)
  ELSE LET na == IF i <= Len(pa) THEN Number(pa[i]) ELSE Num(0)
           nb == IF i <= Len(pb) THEN Number(pb[i]) ELSE Num(0)
       IN  IF na.nan \/ nb.nan THEN NaN
           ELSE IF na.v # nb.v THEN Num(na.v - nb.v)
           ELSE CompareFrom(pa, pb, i + 1)

compareVersions(a, b) == CompareFrom(Split(a, "."), Split(b, "."), 1)

\* part.match(/^(>=|<=|!=|>|<|=)(.+)$/): the first alternative that leaves
\* at least one character for (.+)
MatchClause(part) ==
  IF Len(part) >= 3 /\ <<part[1], part[2]>> \in {<<">", "=">>, <<"<", "=">>, <<"!", "=">>}
  THEN [ok |-> TRUE, op |-> <<part[1], part[2]>>, val |-> SubSeq(part, 3, Len(part))]
  ELSE IF Len(part) >= 2 /\ part[1] \in {">", "<", "="}
  THEN [ok |-> TRUE, op |-> <<part[1]>>, val |-> SubSeq(part, 2, Len(part))]
  ELSE [ok |-> FALSE, op |-> <<>>, val |-> <<>>]

\* variant: a clause without an operator is passed over
ClauseHoldsLax(ver, part) ==
  LET m == MatchClause(Trim(part))
      cmp == compareVersions(ver, m.val)
  IN  IF ~m.ok THEN TRUE
      ELSE CASE m.op = <<">", "=">> -> ~cmp.nan /\ cmp.v >= 0
             [] m.op = <<"<", "=">> -> ~cmp.nan /\ cmp.v <= 0
             [] m.op = <<">">> -> ~cmp.nan /\ cmp.v > 0
             [] m.op = <<"<">> -> ~cmp.nan /\ cmp.v < 0
             [] m.op = <<"=">> -> ~cmp.nan /\ cmp.v = 0
             [] m.op = <<"!", "=">> -> cmp.nan \/ cmp.v # 0
             [] OTHER -> FALSE

\* the callback of filter.split(",").every(...)
ClauseHolds(ver, part) ==
  LET m == MatchClause(Trim(part))
      cmp == compareVersions(ver, m.val)
  IN  IF ~m.ok THEN FALSE
      ELSE CASE m.op = <<">", "=">> -> ~cmp.nan /\ cmp.v >= 0
             [] m.op = <<"<", "=">> -> ~cmp.nan /\ cmp.v <= 0
             [] m.op = <<">">> -> ~cmp.nan /\ cmp.v > 0
             [] m.op = <<"<">> -> ~cmp.nan /\ cmp.v < 0
             [] m.op = <<"=">> -> ~cmp.nan /\ cmp.v = 0
             [] m.op = <<"!", "=">> -> cmp.nan \/ cmp.v # 0
             [] OTHER -> FALSE

matchesVersionFilter(ver, filter) ==
  \A n \in 1..Len(Split(filter, ",")) : ClauseHolds(ver, Split(filter, ",")[n])

\* a version of integer components: digits between the dots
IsVersion(str) ==
  /\ str # <<>>
  /\ \A n \in 1..Len(str) :
       IF str[n] = "." THEN n > 1 /\ n < Len(str) /\ str[n + 1] # "."
       ELSE IsDigit(str[n])

\* The arguments: a version, and an expression written as clauses of a
\* leading blank or none, an operator (or `~`, or none) and a value; the
\* versions and values are those of integer components and a few that are not.
Versions == {v \in Strings({"0", "4", "."}, MaxVer) : IsVersion(v)} \cup {<<".">>, <<"4", ".">>}
Values == {v \in Strings({"4", "."}, MaxVer) : IsVersion(v)} \cup {<<>>, <<".">>}
Operators == {<<">", "=">>, <<"<", "=">>, <<"!", "=">>, <<">">>, <<"<">>, <<"=">>}
Clauses ==
  [pre : {<<>>, <<" ">>}, op : Operators \cup {<<"~">>, <<>>}, val : Values]

RECURSIVE Join(_)
Join(cs) ==
  IF cs = <<>> THEN <<>>
  ELSE cs[1].pre \o cs[1].op \o cs[1].val
       \o (IF Len(cs) = 1 THEN <<>> ELSE <<",">> \o Join(Tail(cs)))


VersionReturn ==
  /\ call.fn = "matchesVersionFilter" /\ call.st = "called"
  /\ call' = [call EXCEPT !.st = "returned",
                           !.out = matchesVersionFilter(call.in[1], call.in[2])]
  /\ UNCHANGED <<clock, dbFile, pagesDir, index, indexedIds, boot, run, fp, srch, disc, clr, ops, hist>>

\* in: <<ver, filter, the clauses that filter was written from>>
InitVersion ==
  /\ Quiet
  /\ \E v \in Versions, n \in 1..MaxClauses : \E cs \in [1..n -> Clauses] :
       call = CallOf("matchesVersionFilter", <<v, Join(cs), cs>>)

SpecVersion == InitVersion /\ [][VersionReturn]_vars

\* component i of a version, 0 beyond its end
Component(str, i) ==
  IF i <= Len(Split(str, ".")) THEN DecimalValue(Split(str, ".")[i]) ELSE 0

\* -1, 0 or 1: the order of two versions, component by component
VersionOrder(a, b) ==
  LET n == Len(a) + Len(b)
      diff == {i \in 1..n : Component(a, i) # Component(b, i)}
  IN  IF diff = {} THEN 0
      ELSE LET i == CHOOSE k \in diff : \A j \in diff : k <= j
           IN  IF Component(a, i) < Component(b, i) THEN -1 ELSE 1

ClauseTrue(ver, c) ==
  LET o == VersionOrder(ver, c.val)
  IN  CASE c.op = <<">", "=">> -> o >= 0
        [] c.op = <<"<", "=">> -> o <= 0
        [] c.op = <<">">> -> o > 0
        [] c.op = <<"<">> -> o < 0
        [] c.op = <<"=">> -> o = 0
        [] c.op = <<"!", "=">> -> o # 0

WellFormed(c) == c.op \in Operators /\ IsVersion(c.val)

\* C28: for a version and an expression whose clauses are `OP value` with
\* versions of integer components, matchesVersionFilter is true exactly
\* when every clause holds in the component-wise numeric order, a missing
\* trailing component counting as 0.
C28_VersionFilter ==
  (/\ Returned("matchesVersionFilter")
   /\ IsVersion(call.in[1])
   /\ \A n \in 1..Len(call.in[3]) : WellFormed(call.in[3][n]))
    => call.out = (\A n \in 1..Len(call.in[3]) : ClauseTrue(call.in[1], call.in[3][n]))

\* '4.0' against '=4' and '<4.4' has returned true
C28_Witness ==
  /\ Returned("matchesVersionFilter")
  /\ call.in[1] = <<"4", ".", "0">>
  /\ call.in[2] = <<"=", "4", ",", " ", "<", "4", ".", "4">>
  /\ call.out = TRUE

\* a clause with no recognized operator, or an empty one
Malformed(c) == c.op \notin Operators

\* C29: an expression with a malformed clause is false as a whole, and
\* matchesVersionFilter raises no error.
C29_MalformedClauseFalse ==
  /\ call.fn = "matchesVersionFilter" => call.st # "raised"
  /\ (/\ Returned("matchesVersionFilter")
      /\ \E n \in 1..Len(call.in[3]) : Malformed(call.in[3][n]))
       => call.out = FALSE

\* '>=4,~4' has returned false for the version '4'
C29_Witness ==
  /\ Returned("matchesVersionFilter")
  /\ call.in[1] = <<"4">>
  /\ call.in[2] = <<">", "=", "4", ",", "~", "4">>
  /\ call.out = FALSE

\* ------------------------------------------- urlToPath on the url text
\* A pathname is a sequence of characters in which a file extension counts
\* as one character; a query is a sequence of [key, value] parameters.
Extensions == {".html", ".htm"}

\* .replace(/^\//, "")
StripLeadingSlash(path) == IF path # <<>> /\ Head(path) = "/" THEN Tail(path) ELSE path

\* .replace(/\//g, "__")
RECURSIVE SlashToUnderscores(_)
SlashToUnderscores(path) ==
  IF path = <<>> THEN <<>>
  ELSE (IF Head(path) = "/" THEN <<"_", "_">> ELSE <<Head(path)>>) \o SlashToUnderscores(Tail(path))

\* .replace(/\.html?$/, "")
StripExtension(path) ==
  IF path # <<>> /\ path[Len(path)] \in Extensions THEN SubSeq(path, 1, Len(path) - 1) ELSE path

\* the order of the keys "device" < "lang"
KeyRank(k) == IF k = "device" THEN 1 ELSE 2

\* parsed.searchParams.sort(): by key, stable
RECURSIVE InsertParam(_, _)
InsertParam(sorted, prm) ==
  IF sorted = <<>> THEN <<prm>>
  ELSE IF KeyRank(Head(sorted).key) <= KeyRank(prm.key)
  THEN <<Head(sorted)>> \o InsertParam(Tail(sorted), prm)
  ELSE <<prm>> \o sorted

RECURSIVE SortParams(_)
SortParams(params) ==
  IF params = <<>> THEN <<>>
  ELSE InsertParam(SortParams(SubSeq(params, 1, Len(params) - 1)), params[Len(params)])

\* parsed.searchParams.toString()
RECURSIVE ParamsToString(_)
ParamsToString(params) ==
  IF params = <<>> THEN <<>>
  ELSE <<Head(params).key, "=", Head(params).value>>
       \o (IF Len(params) > 1 THEN <<"&">> ELSE <<>>) \o ParamsToString(Tail(params))

\* urlToPath(url) from parsed.pathname and parsed.searchParams
urlToPathText(pathname, params) ==
  StripExtension(SlashToUnderscores(StripLeadingSlash(pathname)))
    \o (IF params # <<>> THEN <<"_", "q", "_">> \o ParamsToString(SortParams(params)) ELSE <<>>)
    \o <<".md">>

\* the urls: a pathname of "/" and up to MaxPath more characters, and the
\* parameters device=signage and lang=en in any order, without repetition
LogicalUrls ==
  [path : {<<"/">> \o t : t \in Strings({"a", "/", ".html"}, MaxPath)},
   query : {q \in Strings({[key |-> "device", value |-> "signage"], [key |-> "lang", value |-> "en"]}, 2) :
              \A i, j \in DOMAIN q : q[i] = q[j] => i = j}]

KeyReturn ==
  /\ call.fn = "urlToPath" /\ call.st = "called"
  /\ call' = [call EXCEPT !.st = "returned",
                           !.out = <<urlToPathText(call.in[1].path, call.in[1].query),
                                     urlToPathText(call.in[2].path, call.in[2].query)>>]
  /\ UNCHANGED <<clock, dbFile, pagesDir, index, indexedIds, boot, run, fp, srch, disc, clr, ops, hist>>

\* in: two urls; out: their keys
InitKey ==
  /\ Quiet
  /\ \E a, b \in LogicalUrls : call = CallOf("urlToPath", <<a, b>>)

SpecKey == InitKey /\ [][KeyReturn]_vars

\* two urls name the same logical page: same path, same set of parameters
SamePage(a, b) ==
  /\ a.path = b.path
  /\ {a.query[n] : n \in DOMAIN a.query} = {b.query[n] : n \in DOMAIN b.query}

\* C30: the key is a function of (path, set of query parameters) without
\* collisions: two urls get the same key exactly when they name the same
\* logical page.
C30_KeyCollisionFree ==
  Returned("urlToPath") => (call.out[1] = call.out[2] <=> SamePage(call.in[1], call.in[2]))

\* ------------------------------------------- fileToUrl on the file name
\* fileToUrl(fileName): the url that buildSearchIndex and addToSearchIndex
\* give the document of a file of the content store
fileToUrl(fileName) ==
  LET \* fileName.replace(/\.md$/, "")
      name == IF fileName # <<>> /\ fileName[Len(fileName)] = ".md"
              THEN SubSeq(fileName, 1, Len(fileName) - 1) ELSE fileName
      \* name.indexOf("_q_"), 0 for -1
      hits == {i \in 1..(Len(name) - 2) : name[i] = "_" /\ name[i + 1] = "q" /\ name[i + 2] = "_"}
      qIdx == IF hits = {} THEN 0 ELSE CHOOSE i \in hits : \A j \in hits : i <= j
      \* .replace(/__/g, "/")
      RECURSIVE UnderscoresToSlash(_)
      UnderscoresToSlash(s) ==
        IF s = <<>> THEN <<>>
        ELSE IF Len(s) >= 2 /\ s[1] = "_" /\ s[2] = "_"
        THEN <<"/">> \o UnderscoresToSlash(SubSeq(s, 3, Len(s)))
        ELSE <<Head(s)>> \o UnderscoresToSlash(Tail(s))
  IN  IF qIdx # 0
      THEN <<"/">> \o UnderscoresToSlash(SubSeq(name, 1, qIdx - 1))
             \o <<"?">> \o SubSeq(name, qIdx + 3, Len(name))
      ELSE <<"/">> \o UnderscoresToSlash(name)

\* A page registered under the key call.in[1] and cached: writeCache names
\* its file urlToPath(key), the index gives its document the url
\* fileToUrl(file); the search tool filters on that url, list-pages on the
\* key (page.href), both with matchesGlob and the pattern call.in[2].
FileReturn ==
  /\ call.fn = "fileToUrl" /\ call.st = "called"
  /\ LET k == call.in[1]
         href == k.path \o (IF k.query # <<>> THEN <<"?">> \o ParamsToString(k.query) ELSE <<>>)
         url == fileToUrl(urlToPathText(k.path, k.query))
     IN  call' = [call EXCEPT !.st = "returned",
                              !.out = [href |-> href, url |-> url,
                                       search |-> matchesGlob(url, call.in[2]),
                                       list |-> matchesGlob(href, call.in[2])]]
  /\ UNCHANGED <<clock, dbFile, pagesDir, index, indexedIds, boot, run, fp, srch, disc, clr, ops, hist>>

\* in: a registry key and a glob pattern of up to MaxPatterns characters
\* that compiles (no leading `*`)
InitFile ==
  /\ Quiet
  /\ \E k \in LogicalUrls, p \in Strings({"a", "/", ".html", "*"}, MaxPatterns) :
       /\ ~matchesGlobThrows(p)
       /\ call = CallOf("fileToUrl", <<k, p>>)

SpecFile == InitFile /\ [][FileReturn]_vars

\* C40: the url that the index reports for the document of a registry key
\* is that key, fileToUrl(urlToPath(k)) = k, so a glob pattern selects the
\* page in search exactly when it selects it in list-pages.
C40_KeyRoundTrip ==
  Returned("fileToUrl") =>
    /\ call.out.url = call.out.href
    /\ call.out.search = call.out.list

\* ------------------------------------------------ the server on a warm cache
\* The process starts on the cache that a populate run over every section
\* has just left: db.json holds every page as fetched at that time, the
\* content store holds the text served then, the index is not built.
InitWarm ==
  /\ clock = 1
  /\ LET links == Dedupe(Discovered(Entries(0), EntryPoints))
     IN  /\ dbFile = writeDb(NoDbFile,
                      [populatedAt |-> 1,
                       pages |-> [j \in 1..Len(links) |->
                                    [href |-> links[j].href, title |-> links[j].title, fetchedAt |-> 1]]])
         /\ pagesDir = [f \in Files |-> Content(fetchPage(PathOf(f), 1))]
  /\ index = NoIndex
  /\ indexedIds = {}
  /\ boot = "pending"
  /\ run = [r \in Runs |-> IdleRun]
  /\ fp = IdleFp
  /\ srch = IdleSrch
  /\ disc = IdleDisc
  /\ clr = IdleClr
  /\ ops = 0
  /\ hist = NoHist
  /\ call = NoCall

\* search(query, maxResults) called by a second invocation of the search
\* tool while the rebuild that an earlier one started is in progress:
\* `index` is not null (buildSearchIndex assigned the new index before its
\* first await), so index.search(query) runs at once on the index as it is;
\* call.out is its result.  (Had clear-cache reset the index meanwhile, the
\* call would start a rebuild of its own, as SearchCall does.)
SearchDuring(budget) ==
  /\ Alive
  /\ srch.pc = "scan"
  /\ index.built
  /\ call.fn = "none"
  /\ ops < budget
  /\ \E q \in Queries :
       call' = [fn |-> "search", in |-> <<q>>, st |-> "returned", out |-> LocalResults(index, q)]
  /\ ops' = ops + 1
  /\ UNCHANGED <<clock, dbFile, pagesDir, index, indexedIds, boot, run, fp, srch, disc, clr, hist>>

SpecWarm == InitWarm /\ [][Next \/ SearchDuring(MaxOps)]_vars

\* ------------------------------------------------- the last ten claims
\* C31: a fetch that fails, in populate, in the resolver or in fetch-page,
\* changes nothing: the step in which a run counts an error, or in which the
\* resolver or fetch-page reports one, leaves the content store, the search
\* index and db.json as they were, and the run's or the resolver's copy of
\* the registry too.
C31_FailedFetchChangesNothing ==
  [][/\ \A r \in Runs : ((FetchFail(r) \/ WriteDone(r)) /\ run'[r].errors > run[r].errors) =>
          /\ UNCHANGED <<pagesDir, index, indexedIds, dbFile>>
          /\ run'[r].db = run[r].db
     /\ (FpFetchFail \/ (FpWrite /\ fp'.pc = "idle")) =>
          UNCHANGED <<pagesDir, index, indexedIds, dbFile>>
     /\ (RFetchFail \/ (RWrite /\ addToSearchIndexThrows(index, indexedIds, urlToPath(srch.todo[srch.pos].href)))) =>
          /\ UNCHANGED <<pagesDir, index, indexedIds, dbFile>>
          /\ srch'.db = srch.db]_vars

\* C32: a run fetches each key at most once: its list of links holds every
\* discovered key once, each with the title of its first occurrence in
\* entry-point order; a key that the run adds to the registry gets that
\* title; and a link that has settled is not fetched again.
C32_FetchOncePerRun ==
  [][\A r \in Runs :
       /\ (Register(r) /\ ~readDbThrows(dbFile)) =>
            LET rr == run'[r]
                all == Discovered(Entries(rr.sec), rr.found)
            IN  /\ \A i, j \in 1..Len(rr.links) : rr.links[i].href = rr.links[j].href => i = j
                /\ \A n \in 1..Len(all) : \E j \in 1..Len(rr.links) : rr.links[j].href = all[n].href
                /\ \A j \in 1..Len(rr.links) : \E n \in 1..Len(all) :
                     /\ all[n] = rr.links[j]
                     /\ \A m \in 1..(n - 1) : all[m].href # rr.links[j].href
                /\ \A j \in 1..Len(rr.links) :
                     ~HasKey(readDb(dbFile).pages, rr.links[j].href) =>
                        EntryOf(rr.db.pages, rr.links[j].href).title = rr.links[j].title
       /\ (run[r].pc \in FetchPhase /\ run'[r].pc \in FetchPhase) =>
            /\ run'[r].links = run[r].links
            /\ \A j \in 1..Len(run[r].st) : run[r].st[j] \in Settled => run'[r].st[j] = run[r].st[j]
            /\ \A j \in 1..Len(run[r].st) :
                 run'[r].st[j] = "ok" =>
                    EntryOf(run'[r].db.pages, run[r].links[j].href).title = run[r].links[j].title]_vars

\* a run over every section has fetched the page that both entry points
\* list, under the title of the link of the first entry point
C32_Witness ==
  \E r \in Runs : \E j \in 1..Len(run[r].st) :
    /\ run[r].pc \in FetchPhase
    /\ run[r].found = EntryPoints
    /\ run[r].links[j] = [href |-> PathOf(NumKeys), title |-> LinkTitle(NumKeys, 1)]
    /\ run[r].st[j] = "ok"
    /\ EntryOf(run[r].db.pages, PathOf(NumKeys)).title = LinkTitle(NumKeys, 1)

\* ------------------------------------------------ writeCache, await by await
\* Two invocations of writeCache(url, content) that overlap, on a store of
\* earlier documents and an index that is either not built or was built from
\* that store.  call.in[w] is what invocation w was given, call.st[w] is its
\* position: "dir" (await ensureCacheDir), "write" (Bun.write called, its
\* bytes not yet in the file), "written" (the bytes are in the file, the
\* promise of Bun.write not yet resolved), "returned" or "raised".
InitWrite ==
  /\ clock = 1
  /\ dbFile = NoDbFile
  /\ \E S \in SUBSET Files, built \in BOOLEAN :
       /\ pagesDir = [f \in Files |-> IF f \in S THEN Content(fetchPage(PathOf(f), 1)) ELSE NoDoc]
       /\ index = IF built THEN [built |-> TRUE, docs |-> pagesDir] ELSE NoIndex
       /\ indexedIds = IF built THEN S ELSE {}
  /\ boot = "done"
  /\ run = [r \in Runs |-> IdleRun]
  /\ fp = IdleFp
  /\ srch = IdleSrch
  /\ disc = IdleDisc
  /\ clr = IdleClr
  /\ ops = 0
  /\ hist = NoHist
  /\ \E k1, k2 \in Pages, r1, r2 \in 1..MaxTime :
       call = [fn |-> "writeCache",
               in |-> <<[url |-> PathOf(k1), content |-> Content(fetchPage(PathOf(k1), r1))],
                        [url |-> PathOf(k2), content |-> Content(fetchPage(PathOf(k2), r2))]>>,
               st |-> <<"dir", "dir">>, out |-> FALSE]

\* await ensureCacheDir("pages") resolves: Bun.write(filePath, content) is called
EnsuredDir(w) ==
  /\ call.fn = "writeCache"
  /\ call.st[w] = "dir"
  /\ call' = [call EXCEPT !.st[w] = "write"]
  /\ UNCHANGED <<clock, dbFile, pagesDir, index, indexedIds, boot, run, fp, srch, disc, clr, ops, hist>>

\* the bytes of one Bun.write reach the file: of two writes to one file that
\* are in flight together, either may be the later one
BunWritten(w) ==
  /\ call.fn = "writeCache"
  /\ call.st[w] = "write"
  /\ pagesDir' = [pagesDir EXCEPT ![urlToPath(call.in[w].url)] = call.in[w].content]
  /\ call' = [call EXCEPT !.st[w] = "written"]
  /\ UNCHANGED <<clock, dbFile, index, indexedIds, boot, run, fp, srch, disc, clr, ops, hist>>

\* await Bun.write resolves: await addToSearchIndex(fileName, content); return
WriteCacheReturn(w) ==
  LET f == urlToPath(call.in[w].url)
  IN  /\ call.fn = "writeCache"
      /\ call.st[w] = "written"
      /\ IF addToSearchIndexThrows(index, indexedIds, f)
         THEN /\ call' = [call EXCEPT !.st[w] = "raised"]
              /\ UNCHANGED <<index, indexedIds>>
         ELSE /\ index' = addToSearchIndex(index, f, call.in[w].content)
              /\ indexedIds' = addToIndexedIds(index, indexedIds, f)
              /\ call' = [call EXCEPT !.st[w] = "returned"]
      /\ UNCHANGED <<clock, dbFile, pagesDir, boot, run, fp, srch, disc, clr, ops, hist>>

SpecWrite == InitWrite /\ [][\E w \in 1..2 : EnsuredDir(w) \/ BunWritten(w) \/ WriteCacheReturn(w)]_vars

\* C33: when two overlapping writes to one key have both completed, the
\* index entry of the key (the index being built) is the text that the
\* content store holds for the key.
C33_LastWriteWins ==
  (/\ call.fn = "writeCache"
   /\ call.in[1].url = call.in[2].url
   /\ \A w \in 1..2 : call.st[w] \in {"returned", "raised"}
   /\ index.built) =>
     index.docs[urlToPath(call.in[1].url)] = pagesDir[urlToPath(call.in[1].url)]

\* C34: a writeCache that overlaps a lazy rebuild of the index does not fail
\* and does not make the rebuild fail: no writeCache of a populate run, of
\* fetch-page or of the resolver raises in addToSearchIndex (a discard of an
\* id that the index does not hold, an add of one it holds), and the
\* index.addAll that ends a rebuild does not raise (an id that an upsert
\* has added meanwhile, an index that clear-cache has reset).
C34_RebuildSafe ==
  [][/\ \A r \in Runs : WriteDone(r) => run'[r].errors = run[r].errors
     /\ FpWrite => fp'.pc = "readDb"
     /\ RWrite => ~addToSearchIndexThrows(index, indexedIds, urlToPath(srch.todo[srch.pos].href))
     /\ ScanEnd => ~addAllThrows(index, srch.docs)]_vars

\* C35: a search that is issued while the lazy rebuild of another search is
\* in progress is answered from the rebuilt index: it returns a result for
\* every query term that a document of the content store contains, so it
\* does not go on to the resolver.
C35_SearchWaitsForRebuild ==
  [][(call.fn = "none" /\ call'.fn = "search") =>
       \A f \in Stored : TermOf(f) \in call'.in[1] => call'.out # {}]_vars

\* C36: db.json and the content store name a page by the same key: no two
\* entries of db.json belong to one cache file, and (as long as clear-cache
\* has deleted nothing) the entries marked fetched are not more than the
\* documents in the store.
C36_OneEntryPerDocument ==
  /\ \A m, n \in 1..Len(Persisted) :
       urlToPath(Persisted[m].href) = urlToPath(Persisted[n].href) => m = n
  /\ ~hist.cleared =>
       Cardinality({n \in 1..Len(Persisted) : Persisted[n].fetchedAt # Absent}) <= Cardinality(Stored)

\* ------------------------------------------------------ the CLI, --populate
\* bun run src/server.ts --populate [--concurrency n] [--section s]:
\* populate({ concurrency: Number(argv), section }), then process.exit(0).
\* The flag's text is any number; the model takes 0..MaxConcurrency.
CliPopulate(r, budget) ==
  /\ Free(r)
  /\ ops < budget
  /\ \E conc \in 0..MaxConcurrency, sec \in {0} \cup EntryPoints, t \in {clock} :
       /\ clock' = t
       /\ run' = [run EXCEPT ![r] = BeginRun(conc, sec, WEEK_MS, t)]
  /\ ops' = ops + 1
  /\ UNCHANGED <<dbFile, pagesDir, index, indexedIds, boot, tools, hist, call>>

\* every await of the run settles: a step of the run that can be taken is
\* taken in the end
SpecCli ==
  /\ Init
  /\ [][CliPopulate(1, MaxRuns) \/ RunStep(1) \/ DbTruncate \/ Tick]_vars
  /\ WF_vars(RunStep(1))

\* C37: a populate run terminates for every concurrency its callers can
\* pass: a run that has started returns in the end, with populatedAt in
\* db.json.
C37_PopulateTerminates ==
  \A r \in Runs : (run[r].pc = "discover") ~> (run[r].pc = "idle" /\ PopulatedAtOnDisk # Absent)

\* the links of a run whose fetchAndCache has ended with outcome o
Ended(rr, o) == {j \in 1..Len(rr.st) : rr.st[j] = o}

\* C38: every link of a run is counted in exactly one of fetched, skipped
\* and errors: during the fetch phase each counter is the number of links
\* that ended that way, their sum never exceeds the total, and when the run
\* finishes the sum is the total.
C38_CountersAddUp ==
  \A r \in Runs :
    LET rr == run[r]
    IN  rr.pc \in FetchPhase =>
          /\ rr.fetched = Cardinality(Ended(rr, "ok"))
          /\ rr.skipped = Cardinality(Ended(rr, "skip"))
          /\ rr.errors = Cardinality(Ended(rr, "err"))
          /\ rr.fetched + rr.skipped + rr.errors <= Len(rr.links)
          /\ rr.pc = "finalize" => rr.fetched + rr.skipped + rr.errors = Len(rr.links)

\* a run at its end that has fetched a page, skipped a fresh one and failed
\* on a third
C38_Witness ==
  \E r \in Runs :
    /\ run[r].pc = "finalize"
    /\ run[r].fetched >= 1 /\ run[r].skipped >= 1 /\ run[r].errors >= 1

\* C39: the progress line is logged at every ProgressEvery-th completion
\* and at the last one, whatever the outcome of that completion: at any
\* point of the fetch phase, each count d of completions reached so far that
\* is a multiple of ProgressEvery or is the total has had its line.
C39_ProgressCadence ==
  \A r \in Runs :
    LET rr == run[r]
    IN  rr.pc \in FetchPhase =>
          \A d \in 1..(rr.fetched + rr.skipped + rr.errors) :
            (d % ProgressEvery = 0 \/ d = Len(rr.links)) => d \in rr.progress

====
